---------------------------- MODULE Spec2Model ----------------------------
(***************************************************************************)
(* A model of the arbor-tree algorithms of NeuroMorphoVis:                 *)
(*   - the dendrogram layout of nmv/skeleton/ops/skeleton_dendrogram_ops.py *)
(*   - the DisconnectedSectionsBuilder of                                   *)
(*     nmv/builders/morphology/disconnected_sections_builder.py            *)
(*                                                                         *)
(* A section is a natural number 1..n; 0 stands for Python's None.  An     *)
(* arbor is a record [n, parent] with parent[1] = 0 (the arbor root) and   *)
(* parent[s] < s; the children list of a section is the ascending list of  *)
(* the sections that name it as parent, so the depth-first order of a tree *)
(* is in general not the order of the section numbers.                     *)
(*                                                                         *)
(* A coordinate is an exact rational <<numerator, denominator>>; None is   *)
(* <<0, 0>>.  (The code computes in Python floats; the model keeps the     *)
(* same sequence of additions and divisions, exactly.)                     *)
(***************************************************************************)
EXTENDS Integers, Sequences, FiniteSets, TLC

\* ------------------------------------------------------------------ bounds
\* The largest number of sections of an arbor
MaxSections == 5

\* delta is drawn from 1..MaxDelta and the default value
MaxDelta == 2

\* The default distance between the leaves, compute_arbor_dendrogram(delta=10)
DefaultDelta == 10

\* Section lengths are drawn from 1..MaxLength + 1
MaxLength == 2

\* compute_arbor_dendrogram is called at most MaxRuns times on one arbor
MaxRuns == 2

\* ------------------------------------------------------------- rationals
None == <<0, 0>>

Abs(a) == IF a < 0 THEN -a ELSE a

RECURSIVE GCD(_, _)
GCD(a, b) == IF b = 0 THEN a ELSE GCD(b, a % b)

Norm(q) ==
    LET g == GCD(Abs(q[1]), q[2])
    IN  <<q[1] \div g, q[2] \div g>>

Rat(k) == <<k, 1>>

RatAdd(p, q) == Norm(<<p[1] * q[2] + q[1] * p[2], p[2] * q[2]>>)

RatDiv(p, k) == Norm(<<p[1], p[2] * k>>)

\* ------------------------------------------------------------------ trees
\* All the arbors of n sections
TreesOfSize(n) ==
    { [n |-> n, parent |-> f] :
        f \in { g \in [1..n -> 0..n] :
                  \A s \in 1..n : g[s] < s /\ (g[s] = 0 <=> s = 1) } }

Trees(nmax) == UNION { TreesOfSize(n) : n \in 1..nmax }

RECURSIVE ChildrenFrom(_, _, _)
ChildrenFrom(t, p, k) ==
    IF k > t.n THEN <<>>
    ELSE (IF t.parent[k] = p THEN <<k>> ELSE <<>>) \o ChildrenFrom(t, p, k + 1)

\* section.children
children(t, s) == ChildrenFrom(t, s, 1)

\* section.is_leaf()
is_leaf(t, s) == Len(children(t, s)) = 0

\* The ancestors of a section: its parent, the parent of that, ...
RECURSIVE Ancestors(_, _)
Ancestors(t, s) ==
    IF t.parent[s] = 0 THEN {}
    ELSE {t.parent[s]} \cup Ancestors(t, t.parent[s])

\* Depth-first pre-order of the subtree of s, following the children lists
RECURSIVE PreOrder(_, _)
RECURSIVE PreOrderList(_, _)
PreOrder(t, s) == <<s>> \o PreOrderList(t, children(t, s))
PreOrderList(t, cs) ==
    IF cs = <<>> THEN <<>>
    ELSE PreOrder(t, Head(cs)) \o PreOrderList(t, Tail(cs))

SelectLeaves(t, seq) == SelectSeq(seq, LAMBDA s : is_leaf(t, s))

Range(seq) == { seq[k] : k \in 1..Len(seq) }

\* The length of a section; the profile k is an input of the model
SectionLength(k, s) == 1 + ((s * k) % (MaxLength + 1))


\* ------------------------------------------------------------------ state
VARIABLES
    arbor,          \* the arbor given to compute_arbor_dendrogram: [n, parent]
    profile,        \* the lengths of its sections (see SectionLength)
    delta,          \* the distance between the leaves
    dendrogram_x,   \* section.dendrogram_x
    dendrogram_y,   \* section.dendrogram_y
    leaves,         \* the local list leaves of compute_arbor_dendrogram
    pc,             \* the position in compute_arbor_dendrogram
    i,              \* the index (from 1) of the leaf of the second loop
    section,        \* the argument of the running invocation of
                    \* compute_dendrogram_x_coordinates_for_parents
    fresh,          \* every dendrogram_x was None when the running call began
    run             \* the number of calls of compute_arbor_dendrogram so far

dvars == <<arbor, profile, delta, dendrogram_x, dendrogram_y, leaves, pc, i,
           section, fresh, run>>

\* The state of a call of DisconnectedSectionsBuilder.construct_tree_poly_lines
VARIABLES
    pl_arbor,         \* the tree of the argument root: [n, parent]
    pl_args,          \* max_branching_order, prefix, material_start_index,
                      \* highlight
    poly_lines_list,  \* the argument poly_lines_list
    pl_before,        \* the list as it was when the call began
    pl_pc             \* "call" before the call, "done" after it

pvars == <<pl_arbor, pl_args, poly_lines_list, pl_before, pl_pc>>

\* The state of a DisconnectedSectionsBuilder and of the Blender scene
VARIABLES
    morphology,   \* self.morphology: the lists of arbors, each [tag, tree]
    builder,      \* the fields of self, with self.options
    scene,        \* the objects in the Blender scene (their numbers)
    objects,      \* every object created so far; objects[k] is object k
    materials,    \* the number of materials created so far
    call,         \* the last call that returned: its name, the number of
                  \* objects created before it began, the list it returned
    calls,        \* the number of calls of the public methods so far
    rpc,          \* the position in render_highlighted_arbors
    rk,           \* the number of arbors render_highlighted_arbors has done
    steps         \* the steps that the last draw_morphology_skeleton ran, each
                  \* with the number of objects that existed when it ended

bvars == <<morphology, builder, scene, objects, materials, call, calls, rpc, rk,
           steps>>

\* The state of a call of DisconnectedSectionsBuilder.
\* draw_section_terminal_as_sphere
VARIABLES
    sph_section,   \* the argument section: the radius of its last sample and
                   \* the radii of the first samples of its children
    sph_options,   \* self.options.morphology: arbors_radii,
                   \* sections_radii_scale, samples_unified_radii_value
    sph_spheres,   \* self.articulations_spheres
    sph_before,    \* self.articulations_spheres when the call began
    sph_pc         \* "call" before the call, "done" after it

sphvars == <<sph_section, sph_options, sph_spheres, sph_before, sph_pc>>

\* The state of a call of plot_per_arbor_result or plot_per_arbor_range, up
\* to the end of its imports
VARIABLES
    imp_function,   \* the function that was called
    imp_installed,  \* the packages that an import statement finds
    imp_events,     \* the imports and the calls of pip_wheel so far, in order
    imp_pc          \* the position in the function

impvars == <<imp_function, imp_installed, imp_events, imp_pc>>

\* The state of a call of plot_per_arbor_result, after its imports
VARIABLES
    plot_args,   \* analysis_results and add_percentage
    plot_bars,   \* ax.patches: the width of each bar
    plot_texts,  \* the texts added with ax.text
    plot_pc      \* the position in the function

plotvars == <<plot_args, plot_bars, plot_texts, plot_pc>>

\* The state of a call of compute_morphology_dendrogram
VARIABLES
    md_morphology,   \* the argument morphology: apical_dendrite, dendrites, axon
    md_delta,        \* the argument delta
    md_calls,        \* the calls of compute_arbor_dendrogram so far, in order
    md_dendrograms,  \* the dendrogram_x and dendrogram_y of each arbor
    md_pc            \* the position in the function

mdvars == <<md_morphology, md_delta, md_calls, md_dendrograms, md_pc>>

\* The state of a call of compute_arbor_total_surface_area
VARIABLES
    area_arbor,                \* the argument arbor: its tree and the areas of
                               \* the segments of its sections
    sections_surface_areas,    \* the local list sections_surface_areas
    arbor_total_surface_area,  \* the local arbor_total_surface_area
    area_pc                    \* the position in the function

areavars == <<area_arbor, sections_surface_areas, arbor_total_surface_area,
              area_pc>>

\* The state of Blender's panel registry and of the entry points of the add-on
VARIABLES
    registered,  \* the panels that are registered
    reg_pc,      \* the position in register() or unregister()
    reg_calls    \* the calls of register() and unregister() so far, in order

regvars == <<registered, reg_pc, reg_calls>>

\* The variables of the parts of the program below the builder
xvars == <<sphvars, impvars, plotvars, mdvars, areavars, regvars>>

\* The variables of the parts of the program that a specification leaves out
\* are kept at Idle
Idle == <<>>

Deltas == (1..MaxDelta) \cup {DefaultDelta}

Profiles == 0..MaxLength

\* -------------------------------------------- skeleton_dendrogram_ops.py
RECURSIVE get_subtree_leaves(_, _, _)
RECURSIVE get_subtree_leaves_of_children(_, _, _)
get_subtree_leaves_all(t, sec, lvs) ==
    get_subtree_leaves_of_children(t, children(t, sec), Append(lvs, sec))

get_subtree_leaves(t, sec, lvs) ==
    get_subtree_leaves_of_children(t, children(t, sec),
        IF is_leaf(t, sec) THEN Append(lvs, sec) ELSE lvs)

get_subtree_leaves_of_children(t, cs, lvs) ==
    IF cs = <<>> THEN lvs
    ELSE get_subtree_leaves_of_children(t, Tail(cs),
             get_subtree_leaves(t, Head(cs), lvs))

get_arbor_leaves(t, root) ==
    IF root = 0 THEN <<>> ELSE get_subtree_leaves(t, root, <<>>)

\* The X-coordinate of the leaf at position k (from 0) of the leaves list
leaf_x_shifted(k, d) == Rat((k + 1) * d)

leaf_x(k, d) == Rat(k * d)

\* The loop over section.parent.children: the sum of the X-coordinates of the
\* children, or None when the loop returns at a child whose X-coordinate is None
RECURSIVE sum_children_x(_, _, _)
RECURSIVE sum_children_x_skipping(_, _, _)
sum_children_x_skipping(x, cs, acc) ==
    IF cs = <<>> THEN acc
    ELSE IF x[Head(cs)] = None THEN sum_children_x_skipping(x, Tail(cs), acc)
    ELSE sum_children_x_skipping(x, Tail(cs), RatAdd(acc, x[Head(cs)]))

sum_children_x(x, cs, acc) ==
    IF cs = <<>> THEN acc
    ELSE IF x[Head(cs)] = None THEN None
    ELSE sum_children_x(x, Tail(cs), RatAdd(acc, x[Head(cs)]))

\* x /= len(section.parent.children)
center_point_unnormalized(sum, cs) == sum

center_point(sum, cs) == RatDiv(sum, Len(cs))

\* section.compute_path_length(): the length of the path from the arbor root
\* to the end of the section
RECURSIVE compute_path_length(_, _, _)
compute_path_length(t, k, s) ==
    SectionLength(k, s) +
    (IF t.parent[s] = 0 THEN 0 ELSE compute_path_length(t, k, t.parent[s]))

RECURSIVE compute_dendrogram_y_coordinates_for_children(_, _, _, _)
RECURSIVE compute_dendrogram_y_coordinates_list(_, _, _, _)
compute_dendrogram_y_coordinates_no_recursion(t, k, sec, y) ==
    [y EXCEPT ![sec] = Rat(compute_path_length(t, k, sec))]

compute_dendrogram_y_coordinates_for_children(t, k, sec, y) ==
    compute_dendrogram_y_coordinates_list(t, k, children(t, sec),
        [y EXCEPT ![sec] = Rat(compute_path_length(t, k, sec))])

compute_dendrogram_y_coordinates_list(t, k, cs, y) ==
    IF cs = <<>> THEN y
    ELSE compute_dendrogram_y_coordinates_list(t, k, Tail(cs),
             compute_dendrogram_y_coordinates_for_children(t, k, Head(cs), y))

\* ------------------------------------------------------------------- Init
DInit ==
    /\ arbor \in Trees(MaxSections)
    /\ profile \in Profiles
    /\ delta \in Deltas
    /\ dendrogram_x = [s \in 1..arbor.n |-> None]
    /\ dendrogram_y = [s \in 1..arbor.n |-> None]
    /\ leaves = <<>>
    /\ pc = "start"
    /\ i = 0
    /\ section = 0
    /\ fresh = TRUE
    /\ run = 1

\* ------------------------------------------- compute_arbor_dendrogram
\* leaves = get_arbor_leaves(arbor=arbor)
GetLeaves ==
    /\ UNCHANGED <<pvars, bvars, xvars>>
    /\ pc = "start"
    /\ leaves' = get_arbor_leaves(arbor, 1)
    /\ fresh' = (\A s \in 1..arbor.n : dendrogram_x[s] = None)
    /\ pc' = "leaves_x"
    /\ UNCHANGED <<arbor, profile, delta, dendrogram_x, dendrogram_y, i,
                   section, run>>

\* for i, leaf in enumerate(leaves): leaf.dendrogram_x = i * delta
AssignLeavesX ==
    /\ UNCHANGED <<pvars, bvars, xvars>>
    /\ pc = "leaves_x"
    /\ dendrogram_x' =
           [s \in 1..arbor.n |->
               IF \E k \in 1..Len(leaves) : leaves[k] = s
               THEN leaf_x((CHOOSE k \in 1..Len(leaves) :
                               leaves[k] = s /\
                               \A m \in 1..Len(leaves) : leaves[m] = s => m <= k) - 1,
                           delta)
               ELSE dendrogram_x[s]]
    /\ i' = 1
    /\ section' = IF Len(leaves) >= 1 THEN leaves[1] ELSE 0
    /\ pc' = IF Len(leaves) >= 1 THEN "parents" ELSE "y"
    /\ UNCHANGED <<arbor, profile, delta, dendrogram_y, leaves, fresh, run>>

\* The return of compute_dendrogram_x_coordinates_for_parents(leaves[i]) to
\* the loop of compute_arbor_dendrogram, which goes on with the next leaf
ReturnToLoop ==
    /\ i' = i + 1
    /\ section' = IF i + 1 <= Len(leaves) THEN leaves[i + 1] ELSE 0
    /\ pc' = IF i + 1 <= Len(leaves) THEN "parents" ELSE "y"

\* compute_dendrogram_x_coordinates_for_parents(None): return
XParentsOfNone ==
    /\ UNCHANGED <<pvars, bvars, xvars>>
    /\ pc = "parents"
    /\ section = 0
    /\ ReturnToLoop
    /\ UNCHANGED <<arbor, profile, delta, dendrogram_x, dendrogram_y, leaves,
                   fresh, run>>

\* section.parent is None: recur with None
XParentsAtRoot ==
    /\ UNCHANGED <<pvars, bvars, xvars>>
    /\ pc = "parents"
    /\ section # 0
    /\ arbor.parent[section] = 0
    /\ section' = 0
    /\ UNCHANGED <<arbor, profile, delta, dendrogram_x, dendrogram_y, leaves,
                   pc, i, fresh, run>>

\* The X-coordinate of one of the children of section.parent is None: return
XParentsReturn ==
    /\ UNCHANGED <<pvars, bvars, xvars>>
    /\ pc = "parents"
    /\ section # 0
    /\ arbor.parent[section] # 0
    /\ sum_children_x(dendrogram_x, children(arbor, arbor.parent[section]),
                      Rat(0)) = None
    /\ ReturnToLoop
    /\ UNCHANGED <<arbor, profile, delta, dendrogram_x, dendrogram_y, leaves,
                   fresh, run>>

\* section.parent.dendrogram_x = x, then recur with section.parent
XParentsAssign ==
    /\ UNCHANGED <<pvars, bvars, xvars>>
    /\ pc = "parents"
    /\ section # 0
    /\ arbor.parent[section] # 0
    /\ LET p   == arbor.parent[section]
           cs  == children(arbor, p)
           sum == sum_children_x(dendrogram_x, cs, Rat(0))
       IN  /\ sum # None
           /\ dendrogram_x' = [dendrogram_x EXCEPT ![p] = center_point(sum, cs)]
           /\ section' = p
    /\ UNCHANGED <<arbor, profile, delta, dendrogram_y, leaves, pc, i, fresh,
                   run>>

\* compute_dendrogram_y_coordinates_for_children(section=arbor)
ComputeY ==
    /\ UNCHANGED <<pvars, bvars, xvars>>
    /\ pc = "y"
    /\ dendrogram_y' = compute_dendrogram_y_coordinates_for_children(
                           arbor, profile, 1, dendrogram_y)
    /\ pc' = "done"
    /\ UNCHANGED <<arbor, profile, delta, dendrogram_x, leaves, i, section,
                   fresh, run>>

\* compute_arbor_dendrogram is called again on the same arbor
CallAgain ==
    /\ UNCHANGED <<pvars, bvars, xvars>>
    /\ pc = "done"
    /\ run < MaxRuns
    /\ delta' \in Deltas
    /\ run' = run + 1
    /\ pc' = "start"
    /\ i' = 0
    /\ section' = 0
    /\ leaves' = <<>>
    /\ UNCHANGED <<arbor, profile, dendrogram_x, dendrogram_y, fresh>>

DNext ==
    \/ GetLeaves
    \/ AssignLeavesX
    \/ XParentsOfNone
    \/ XParentsAtRoot
    \/ XParentsReturn
    \/ XParentsAssign
    \/ ComputeY
    \/ CallAgain

vars == <<dvars, pvars, bvars, xvars>>

\* No call of construct_tree_poly_lines
PIdle ==
    /\ pl_arbor = Idle /\ pl_args = Idle /\ poly_lines_list = Idle
    /\ pl_before = Idle /\ pl_pc = Idle

\* No builder
BIdle ==
    /\ morphology = Idle /\ builder = Idle /\ scene = Idle /\ objects = Idle
    /\ materials = Idle /\ call = Idle /\ calls = Idle /\ rpc = Idle
    /\ rk = Idle /\ steps = Idle

\* No call of draw_section_terminal_as_sphere
SphIdle ==
    /\ sph_section = Idle /\ sph_options = Idle /\ sph_spheres = Idle
    /\ sph_before = Idle /\ sph_pc = Idle

\* No call of a plotting function
ImpIdle ==
    /\ imp_function = Idle /\ imp_installed = Idle /\ imp_events = Idle
    /\ imp_pc = Idle

PlotIdle ==
    /\ plot_args = Idle /\ plot_bars = Idle /\ plot_texts = Idle
    /\ plot_pc = Idle

\* No call of compute_morphology_dendrogram
MdIdle ==
    /\ md_morphology = Idle /\ md_delta = Idle /\ md_calls = Idle
    /\ md_dendrograms = Idle /\ md_pc = Idle

\* No call of compute_arbor_total_surface_area
AreaIdle ==
    /\ area_arbor = Idle /\ sections_surface_areas = Idle
    /\ arbor_total_surface_area = Idle /\ area_pc = Idle

\* No add-on
RegIdle == registered = Idle /\ reg_pc = Idle /\ reg_calls = Idle

XIdle == SphIdle /\ ImpIdle /\ PlotIdle /\ MdIdle /\ AreaIdle /\ RegIdle

\* No call of compute_arbor_dendrogram
DIdle ==
    /\ arbor = Idle /\ profile = Idle /\ delta = Idle /\ dendrogram_x = Idle
    /\ dendrogram_y = Idle /\ leaves = Idle /\ pc = Idle /\ i = Idle
    /\ section = Idle /\ fresh = Idle /\ run = Idle

Init == DInit /\ PIdle /\ BIdle /\ XIdle

Next == DNext

Spec == Init /\ [][Next]_vars


\* ----------------------------------------------------- dendrogram claims
\* The number of positions of a list that hold the section s
Occurrences(seq, s) == Cardinality({ k \in 1..Len(seq) : seq[k] = s })

\* The arithmetic mean of the X-coordinates of a list of sections
RECURSIVE SumOfX(_, _)
SumOfX(x, cs) ==
    IF cs = <<>> THEN Rat(0) ELSE RatAdd(x[Head(cs)], SumOfX(x, Tail(cs)))

MeanOfX(x, cs) == RatDiv(SumOfX(x, cs), Len(cs))

\* C1: get_arbor_leaves(arbor) holds exactly the sections of the arbor for
\* which is_leaf() holds, each exactly once, in the depth-first left-to-right
\* (pre-order) order of the children lists, and no section that is not a leaf.
C1_LeavesInPreOrder ==
    pc # "start" =>
        /\ \A s \in 1..arbor.n :
               Occurrences(leaves, s) = (IF is_leaf(arbor, s) THEN 1 ELSE 0)
        /\ \A k \in 1..Len(leaves) : is_leaf(arbor, leaves[k])
        /\ leaves = SelectLeaves(arbor, PreOrder(arbor, 1))

\* The leaves of an arbor with an inner section were collected, and their
\* depth-first order is not the order of the section numbers
C1_Witness ==
    /\ pc = "leaves_x"
    /\ Len(leaves) >= 2
    /\ Len(leaves) < arbor.n - 1
    /\ \E k \in 1..(Len(leaves) - 1) : leaves[k] > leaves[k + 1]

\* C2: after compute_arbor_dendrogram(arbor, delta) the i-th leaf (i from 0)
\* returned by get_arbor_leaves has dendrogram_x = i * delta: the leaves start
\* at 0 and consecutive leaves are delta apart.
C2_LeavesSpacedByDelta ==
    pc = "done" =>
        LET lvs == get_arbor_leaves(arbor, 1)
        IN  /\ dendrogram_x[lvs[1]] = Rat(0)
            /\ \A k \in 1..Len(lvs) : dendrogram_x[lvs[k]] = Rat((k - 1) * delta)
            /\ \A k \in 1..(Len(lvs) - 1) :
                   dendrogram_x[lvs[k + 1]] =
                       RatAdd(dendrogram_x[lvs[k]], Rat(delta))

\* A second call, with another delta, has laid out three leaves or more
C2_Witness ==
    /\ pc = "done"
    /\ run = 2
    /\ Len(leaves) >= 3
    /\ delta = DefaultDelta
    /\ dendrogram_x[leaves[3]] = Rat(2 * DefaultDelta)

\* C3: after compute_arbor_dendrogram on an arbor whose sections all started
\* with dendrogram_x = None, every section has a dendrogram_x that is not
\* None, and the dendrogram_x of every section that is not a leaf is the
\* arithmetic mean of the dendrogram_x of its direct children.
C3_ParentsCentered ==
    (pc = "done" /\ fresh) =>
        \A s \in 1..arbor.n :
            /\ dendrogram_x[s] # None
            /\ ~is_leaf(arbor, s) =>
                   dendrogram_x[s] = MeanOfX(dendrogram_x, children(arbor, s))

\* A fresh arbor is laid out whose root has a leaf as first child and a
\* branching section as a later child, with a center that is not an integer
C3_Witness ==
    /\ pc = "done"
    /\ fresh
    /\ Len(children(arbor, 1)) >= 2
    /\ is_leaf(arbor, children(arbor, 1)[1])
    /\ \E c \in Range(children(arbor, 1)) : Len(children(arbor, c)) >= 2
    /\ dendrogram_x[1][2] > 1

\* C4: an invocation of compute_dendrogram_x_coordinates_for_parents(section)
\* that finds the dendrogram_x of a child of section.parent to be None returns
\* at once: it gives the control back to its caller and leaves the dendrogram_x
\* of section.parent and of every ancestor above it unchanged.
C4_ReturnsOnNoneChild ==
    [][ ( /\ pc = "parents"
          /\ section # 0
          /\ arbor.parent[section] # 0
          /\ \E c \in Range(children(arbor, arbor.parent[section])) :
                 dendrogram_x[c] = None )
        => ( /\ i' = i + 1
             /\ \A a \in Ancestors(arbor, section) :
                    dendrogram_x'[a] = dendrogram_x[a] ) ]_vars

\* The invocation for the previous leaf returned with its parent not computed:
\* a sibling of that leaf still has no X-coordinate
C4_Witness ==
    /\ pc = "parents"
    /\ i >= 2
    /\ section = leaves[i]
    /\ arbor.parent[leaves[i - 1]] # 0
    /\ dendrogram_x[arbor.parent[leaves[i - 1]]] = None
    /\ \E c \in Range(children(arbor, arbor.parent[leaves[i - 1]])) :
           dendrogram_x[c] = None

\* C5: after compute_arbor_dendrogram(arbor) the dendrogram_y of every section
\* of the arbor (root, inner sections and leaves) is set, to the path length
\* that section.compute_path_length() returns.
C5_YIsPathLength ==
    pc = "done" =>
        \A s \in 1..arbor.n :
            /\ dendrogram_y[s] # None
            /\ dendrogram_y[s] = Rat(compute_path_length(arbor, profile, s))

\* An arbor with a root, an inner section and a leaf at depth three has its
\* Y-coordinates, and the sections do not all have the same length
C5_Witness ==
    /\ pc = "done"
    /\ \E s \in 1..arbor.n :
           /\ arbor.parent[s] # 0
           /\ arbor.parent[arbor.parent[s]] # 0
           /\ dendrogram_y[s] # None
           /\ dendrogram_y[s][1] > dendrogram_y[arbor.parent[s]][1] + 1


\* --------------------------------------- disconnected_sections_builder.py
\* The largest max_branching_order that is not nmv.consts.Math.INFINITY
MaxOrder == 3

\* nmv.consts.Math.INFINITY, the default of max_branching_order
INFINITY == 1000000

\* nmv.consts.Skeleton: the prefixes of the names of the poly-lines
APICAL_DENDRITES_PREFIX == "APICAL_DENDRITES_PREFIX"

AXON_PREFIX == "AXON_PREFIX"

BASAL_DENDRITES_PREFIX == "BASAL_DENDRITES_PREFIX"

\* arbor.label, the prefix given by draw_arbors_with_individual_colors and
\* draw_highlighted_arbor
ARBOR_LABEL == "arbor.label"

\* nmv.enums.Color: the indices into skeleton_materials
SOMA_MATERIAL_START_INDEX == 0

APICAL_DENDRITE_MATERIAL_START_INDEX == 2

BASAL_DENDRITES_MATERIAL_START_INDEX == 4

AXON_MATERIAL_START_INDEX == 6

GRAY_MATERIAL_INDEX == 8

\* branching_order > max_branching_order
exceeds_or_reaches(branching_order, max_branching_order) ==
    branching_order >= max_branching_order

exceeds(branching_order, max_branching_order) ==
    branching_order > max_branching_order

\* nmv.geometry.PolyLine(name='%s_%d' % (prefix, branching_order), samples=
\* nmv.skeleton.get_section_poly_line(section=root), material_index=...):
\* the name is the pair of its two parts, the samples are those of the section
PolyLineOfStartIndex(prefix, branching_order, root, material_start_index, highlight) ==
    [ name |-> <<prefix, branching_order>>,
      samples |-> root,
      material_index |->
          IF highlight THEN material_start_index ELSE GRAY_MATERIAL_INDEX ]

PolyLine(prefix, branching_order, root, material_start_index, highlight) ==
    [ name |-> <<prefix, branching_order>>,
      samples |-> root,
      material_index |->
          IF highlight THEN material_start_index + (branching_order % 2)
          ELSE GRAY_MATERIAL_INDEX ]

RECURSIVE construct_tree_poly_lines(_, _, _, _, _, _, _, _)
RECURSIVE construct_children_poly_lines(_, _, _, _, _, _, _)
RECURSIVE construct_first_child_poly_lines(_, _, _, _, _, _, _)
\* The poly_lines_list after construct_tree_poly_lines(root, poly_lines_list,
\* branching_order, max_branching_order, prefix, material_start_index,
\* highlight) on the tree t
construct_tree_poly_lines(t, root, list, branching_order, max_branching_order, prefix, material_start_index, highlight) ==
    IF root = 0 THEN list
    ELSE IF exceeds(branching_order + 1, max_branching_order) THEN list
    ELSE construct_children_poly_lines(
             t, children(t, root),
             Append(list, PolyLine(prefix, branching_order + 1, root,
                                   material_start_index, highlight)),
             branching_order + 1, max_branching_order,
             material_start_index, highlight)

construct_first_child_poly_lines(t, cs, list, branching_order, max_branching_order, material_start_index, highlight) ==
    IF cs = <<>> THEN list
    ELSE construct_tree_poly_lines(t, Head(cs), list, branching_order,
             max_branching_order, BASAL_DENDRITES_PREFIX,
             material_start_index, highlight)

\* for child in root.children: self.construct_tree_poly_lines(root=child, ...);
\* the call gives no prefix, so the child gets the default of the parameter
construct_children_poly_lines(t, cs, list, branching_order, max_branching_order, material_start_index, highlight) ==
    IF cs = <<>> THEN list
    ELSE construct_children_poly_lines(
             t, Tail(cs),
             construct_tree_poly_lines(t, Head(cs), list, branching_order,
                 max_branching_order, BASAL_DENDRITES_PREFIX,
                 material_start_index, highlight),
             branching_order, max_branching_order, material_start_index,
             highlight)

\* The arguments that the callers of construct_tree_poly_lines give
MaxBranchingOrders == (1..MaxOrder) \cup {INFINITY}

Prefixes ==
    {APICAL_DENDRITES_PREFIX, AXON_PREFIX, BASAL_DENDRITES_PREFIX, ARBOR_LABEL}

MaterialStartIndices ==
    {APICAL_DENDRITE_MATERIAL_START_INDEX, AXON_MATERIAL_START_INDEX,
     BASAL_DENDRITES_MATERIAL_START_INDEX}

\* A poly-line that an earlier arbor left in the list (draw_arbors_as_single_
\* object gives one list to the calls for all the arbors)
EarlierPolyLine ==
    PolyLine(APICAL_DENDRITES_PREFIX, 1, 1,
             APICAL_DENDRITE_MATERIAL_START_INDEX, TRUE)

PInit ==
    /\ pl_arbor \in Trees(MaxSections)
    /\ pl_args \in [ max_branching_order : MaxBranchingOrders,
                     prefix : Prefixes,
                     material_start_index : MaterialStartIndices,
                     highlight : BOOLEAN ]
    /\ poly_lines_list \in {<<>>, <<EarlierPolyLine>>}
    /\ pl_before = poly_lines_list
    /\ pl_pc = "call"

\* self.construct_tree_poly_lines(root=arbor, poly_lines_list=..., max_
\* branching_order=..., prefix=..., material_start_index=..., highlight=...)
ConstructTreePolyLines ==
    /\ pl_pc = "call"
    /\ poly_lines_list' =
           construct_tree_poly_lines(pl_arbor, 1, poly_lines_list, 0,
               pl_args.max_branching_order, pl_args.prefix,
               pl_args.material_start_index, pl_args.highlight)
    /\ pl_pc' = "done"
    /\ UNCHANGED <<pl_arbor, pl_args, pl_before>>
    /\ UNCHANGED <<dvars, bvars, xvars>>

PNext == ConstructTreePolyLines

InitPolyLines == PInit /\ DIdle /\ BIdle /\ XIdle

SpecPolyLines == InitPolyLines /\ [][PNext]_vars

\* ------------------------------------------------------ poly-line claims
\* The poly-lines that the call appended
Appended == SubSeq(poly_lines_list, Len(pl_before) + 1, Len(poly_lines_list))

\* The branching order of a section: 1 for the arbor root, one more than that
\* of its parent for every other section
RECURSIVE BranchingOrder(_, _)
BranchingOrder(t, s) ==
    IF t.parent[s] = 0 THEN 1 ELSE 1 + BranchingOrder(t, t.parent[s])

\* C6: called on an arbor root with branching_order 0 and an unbounded
\* max_branching_order, construct_tree_poly_lines appends to poly_lines_list
\* exactly one poly-line per section of the tree, in depth-first pre-order, and
\* nothing else: what the list held before stays where it was.
C6_OnePolyLinePerSection ==
    (pl_pc = "done" /\ pl_args.max_branching_order = INFINITY) =>
        /\ SubSeq(poly_lines_list, 1, Len(pl_before)) = pl_before
        /\ Len(Appended) = pl_arbor.n
        /\ [k \in 1..Len(Appended) |-> Appended[k].samples] = PreOrder(pl_arbor, 1)

\* The poly-lines of a branching arbor were appended to a list that held a
\* poly-line, and the pre-order is not the order of the section numbers
C6_Witness ==
    /\ pl_pc = "done"
    /\ pl_args.max_branching_order = INFINITY
    /\ pl_before # <<>>
    /\ Len(Appended) >= 4
    /\ \E k \in 1..(Len(Appended) - 1) :
           Appended[k].samples > Appended[k + 1].samples

\* C7: with the arbor root at branching order 1 and each child one more than
\* its parent, construct_tree_poly_lines appends a poly-line for a section if
\* and only if its branching order is <= max_branching_order; a section beyond
\* the limit, and every descendant of it, gets none.
C7_RespectsMaxBranchingOrder ==
    pl_pc = "done" =>
        \A s \in 1..pl_arbor.n :
            LET n == Cardinality({ k \in 1..Len(Appended) :
                                     Appended[k].samples = s })
            IN  IF BranchingOrder(pl_arbor, s) <= pl_args.max_branching_order
                THEN n = 1 ELSE n = 0

\* A call with a finite limit cut the tree: a section at the limit has its
\* poly-line, its child has none
C7_Witness ==
    /\ pl_pc = "done"
    /\ pl_args.max_branching_order = 2
    /\ \E s \in 1..pl_arbor.n :
           /\ BranchingOrder(pl_arbor, s) = 3
           /\ \A k \in 1..Len(Appended) : Appended[k].samples # s
           /\ \E k \in 1..Len(Appended) :
                  Appended[k].samples = pl_arbor.parent[s]

\* C8: every poly-line that the call appends for the arbor, at every branching
\* level, is named '<prefix>_<branching_order>' with the prefix the caller gave.
C8_PrefixAtEveryLevel ==
    pl_pc = "done" =>
        \A k \in 1..Len(Appended) :
            Appended[k].name =
                <<pl_args.prefix, BranchingOrder(pl_arbor, Appended[k].samples)>>


\* C20: the material index of the poly-line of a section is
\* material_start_index + (branching order mod 2) when highlight is True and
\* the gray material index when it is False; with highlight True every index
\* is material_start_index or material_start_index + 1, the poly-line of the
\* arbor root (order 1) has material_start_index + 1, and the poly-lines of a
\* section and of its child never have the same index.
C20_MaterialIndexAlternates ==
    pl_pc = "done" =>
        /\ \A k \in 1..Len(Appended) :
               Appended[k].material_index =
                   IF pl_args.highlight
                   THEN pl_args.material_start_index +
                        (BranchingOrder(pl_arbor, Appended[k].samples) % 2)
                   ELSE GRAY_MATERIAL_INDEX
        /\ pl_args.highlight =>
               /\ \A k \in 1..Len(Appended) :
                      Appended[k].material_index \in
                          { pl_args.material_start_index,
                            pl_args.material_start_index + 1 }
               /\ \A k \in 1..Len(Appended) :
                      Appended[k].samples = 1 =>
                          Appended[k].material_index =
                              pl_args.material_start_index + 1
               /\ \A k, n \in 1..Len(Appended) :
                      pl_arbor.parent[Appended[n].samples] = Appended[k].samples
                      => Appended[k].material_index # Appended[n].material_index

\* The poly-lines of a root, its child and its grandchild were appended with
\* highlight True
C20_Witness ==
    /\ pl_pc = "done"
    /\ pl_args.highlight
    /\ pl_args.material_start_index = AXON_MATERIAL_START_INDEX
    /\ \E k, n, o \in 1..Len(Appended) :
           /\ Appended[k].samples = 1
           /\ pl_arbor.parent[Appended[n].samples] = 1
           /\ pl_arbor.parent[Appended[o].samples] = Appended[n].samples
           /\ Appended[k].material_index = AXON_MATERIAL_START_INDEX + 1
           /\ Appended[n].material_index = AXON_MATERIAL_START_INDEX
           /\ Appended[o].material_index = AXON_MATERIAL_START_INDEX + 1

\* ------------------------------------------- DisconnectedSectionsBuilder
\* The largest number of arbors of a morphology
MaxArbors == 2

\* The largest number of sections of an arbor of a morphology given to a builder
MaxArborSections == 2

\* The largest number of calls of the public methods of one builder
MaxCalls == 2

\* The number of materials in a list made by create_skeleton_materials
MaterialsPerList == 2

\* Python's None, for a field that holds a list
NoList == "None"

\* The argument of a call of a method that takes none
NoArgument == <<>>

\* The program state that the methods of the builder read and write
World ==
    [ b |-> builder, scene |-> scene, objects |-> objects,
      materials |-> materials, steps |-> <<>> ]

\* morphology.has_apical_dendrites(), has_axons(), has_basal_dendrites()
has_arbors(arbors) == Len(arbors) > 0

\* --- materials
\* The material that nmv.shading.create_material(name=...) makes next
Material(w, name) == [id |-> w.materials + 1, name |-> name]

create_material(w) == [w EXCEPT !.materials = @ + 1]

\* nmv.consts.Color.GREYSH
GREYSH == <<"GREYSH">>

\* The material that nmv.shading.create_material(name='%s_material' % arbor.tag,
\* color=arbor.color, ...) makes next
ArborMaterial(w, a) ==
    [id |-> w.materials + 1, name |-> <<a.tag, "material">>, color |-> a.color]

\* The material that nmv.shading.create_material(name='global_material',
\* color=nmv.consts.Color.GREYSH, ...) makes next
GlobalMaterial(w) ==
    [id |-> w.materials + 1, name |-> <<"global_material">>, color |-> GREYSH]

\* The list that nmv.skeleton.ops.create_skeleton_materials(name=...) makes next
SkeletonMaterials(w, name) ==
    [k \in 1..MaterialsPerList |->
        [id |-> w.materials + k, name |-> <<name, k - 1>>]]

create_skeleton_materials(w) == [w EXCEPT !.materials = @ + MaterialsPerList]

\* nmv.builders.morphology.create_skeleton_materials_and_illumination(builder):
\* a new list of materials for the soma, for each kind of arbor and for the
\* articulations
create_skeleton_materials_and_illumination(w) ==
    LET w1 == create_skeleton_materials(w)
        w2 == create_skeleton_materials(w1)
        w3 == create_skeleton_materials(w2)
        w4 == create_skeleton_materials(w3)
        w5 == create_skeleton_materials(w4)
    IN  [w5 EXCEPT
            !.b.soma_materials = SkeletonMaterials(w, "soma_skeleton"),
            !.b.apical_dendrites_materials =
                SkeletonMaterials(w1, "apical_dendrite_skeleton"),
            !.b.basal_dendrites_materials =
                SkeletonMaterials(w2, "basal_dendrite_skeleton"),
            !.b.axons_materials = SkeletonMaterials(w3, "axon_skeleton"),
            !.b.articulations_materials =
                SkeletonMaterials(w4, "articulation")]

\* self.skeleton_materials.clear()
kept_materials_list(list) == list

cleared_materials_list(list) == <<>>

create_single_skeleton_materials_list(w) ==
    LET w1 == [w EXCEPT !.b.skeleton_materials = cleared_materials_list(@)]
        w2 == create_skeleton_materials_and_illumination(w1)
        w3 == [w2 EXCEPT !.b.skeleton_materials =
                   @ \o w2.b.soma_materials
                     \o w2.b.apical_dendrites_materials
                     \o w2.b.basal_dendrites_materials
                     \o w2.b.axons_materials]
        w4 == create_skeleton_materials(w3)
    IN  [w4 EXCEPT !.b.skeleton_materials = @ \o SkeletonMaterials(w3, "gray")]

\* --- objects of the scene
\* The number of the object that is created next
NextObject(w) == Len(w.objects) + 1

\* A new object, linked to the scene
new_object(w, kind, name, content, mats) ==
    [w EXCEPT
        !.objects = Append(@, [kind |-> kind, name |-> name,
                               content |-> content, materials |-> mats]),
        !.scene = @ \cup {NextObject(w)}]

\* self.morphology_objects.append(...)
append_morphology_object(w, obj) ==
    [w EXCEPT !.b.morphology_objects = Append(@, obj)]

\* nmv.scene.clear_scene(): no object stays in the scene
clear_scene(w) == [w EXCEPT !.scene = {}]

\* bevel_object = nmv.mesh.create_bezier_circle(...);
\* self.morphology_objects.append(bevel_object)
create_bevel_object(w) ==
    append_morphology_object(new_object(w, "bevel", "bevel", <<>>, <<>>),
                             NextObject(w))

\* nmv.builders.morphology.draw_soma(builder=self): the soma object is drawn
\* and appended to builder.morphology_objects
draw_soma(w) ==
    append_morphology_object(
        new_object(w, "soma", "soma", <<>>, w.b.soma_materials),
        NextObject(w))

\* nmv.builders.draw_meta_balls_soma(builder=self)
draw_meta_balls_soma(w) ==
    append_morphology_object(
        new_object(w, "meta_balls_soma", "soma", <<>>, w.b.soma_materials),
        NextObject(w))

\* --- the arbors as objects
\* draw_each_arbor_as_single_object, the body of the loop over the arbors of
\* one kind: a new poly-line list, the poly-lines of the arbor, one object
skeleton_arbor_on_shared_list(w, a, max_branching_order, prefix, material_start_index) ==
    append_morphology_object(
        new_object(w, "arbor", a.label,
            construct_tree_poly_lines(a.tree, 1,
                IF w.objects # <<>> /\ w.objects[Len(w.objects)].kind = "arbor"
                THEN w.objects[Len(w.objects)].content ELSE <<>>,
                0, max_branching_order, prefix, material_start_index, TRUE),
            w.b.skeleton_materials),
        NextObject(w))

skeleton_arbor(w, a, max_branching_order, prefix, material_start_index) ==
    append_morphology_object(
        new_object(w, "arbor", a.label,
            construct_tree_poly_lines(a.tree, 1, <<>>, 0, max_branching_order,
                prefix, material_start_index, TRUE),
            w.b.skeleton_materials),
        NextObject(w))

RECURSIVE skeleton_arbors(_, _, _, _, _)
skeleton_arbors(w, arbors, max_branching_order, prefix, material_start_index) ==
    IF arbors = <<>> THEN w
    ELSE skeleton_arbors(
             skeleton_arbor(w, Head(arbors), max_branching_order, prefix,
                            material_start_index),
             Tail(arbors), max_branching_order, prefix, material_start_index)

draw_each_arbor_as_single_object(w) ==
    LET o  == w.b.options
        w1 == IF ~o.ignore_apical_dendrites /\ has_arbors(morphology.apical_dendrites)
              THEN skeleton_arbors(w, morphology.apical_dendrites,
                       o.apical_dendrite_branch_order, APICAL_DENDRITES_PREFIX,
                       APICAL_DENDRITE_MATERIAL_START_INDEX)
              ELSE w
        w2 == IF ~o.ignore_axons /\ has_arbors(morphology.axons)
              THEN skeleton_arbors(w1, morphology.axons, o.axon_branch_order,
                       AXON_PREFIX, AXON_MATERIAL_START_INDEX)
              ELSE w1
    IN  IF ~o.ignore_basal_dendrites /\ has_arbors(morphology.basal_dendrites)
        THEN skeleton_arbors(w2, morphology.basal_dendrites,
                 o.basal_dendrites_branch_order, BASAL_DENDRITES_PREFIX,
                 BASAL_DENDRITES_MATERIAL_START_INDEX)
        ELSE w2

\* --- the articulations
\* self.articulations_spheres.append(...)
append_sphere(w, kind, a, sec) ==
    [w EXCEPT !.b.articulations_spheres =
         Append(@, [kind |-> kind, arbor |-> a.tag, section |-> sec])]

draw_section_terminal_as_sphere(w, a, sec) == append_sphere(w, "terminal", a, sec)

RECURSIVE draw_section_terminals_as_spheres(_, _, _, _, _)
RECURSIVE draw_children_terminals_as_spheres(_, _, _, _, _)
draw_section_terminals_as_spheres(w, a, root, branching_order, max_branching_order) ==
    IF root = 0 THEN w
    ELSE LET w1 == append_sphere(w, "root_sample", a, root)
         IN  IF branching_order + 1 > max_branching_order THEN w1
             ELSE draw_children_terminals_as_spheres(
                      draw_section_terminal_as_sphere(w1, a, root), a,
                      children(a.tree, root), branching_order + 1,
                      max_branching_order)

draw_children_terminals_as_spheres(w, a, cs, branching_order, max_branching_order) ==
    IF cs = <<>> THEN w
    ELSE draw_children_terminals_as_spheres(
             draw_section_terminals_as_spheres(w, a, Head(cs), branching_order,
                                               max_branching_order),
             a, Tail(cs), branching_order, max_branching_order)

RECURSIVE arbors_terminals_as_spheres(_, _, _)
arbors_terminals_as_spheres(w, arbors, max_branching_order) ==
    IF arbors = <<>> THEN w
    ELSE arbors_terminals_as_spheres(
             draw_section_terminals_as_spheres(w, Head(arbors), 1, 0,
                                               max_branching_order),
             Tail(arbors), max_branching_order)

\* The spheres, joined, become one object of the scene
link_and_shade_articulation_spheres(w) ==
    append_morphology_object(
        new_object(w, "articulations", "articulations",
                   w.b.articulations_spheres,
                   <<w.b.articulations_materials[1]>>),
        NextObject(w))

draw_articulations(w) ==
    LET o  == w.b.options
        w1 == IF ~o.ignore_axons /\ has_arbors(morphology.axons)
              THEN arbors_terminals_as_spheres(w, morphology.axons,
                                               o.axon_branch_order)
              ELSE w
        w2 == IF ~o.ignore_basal_dendrites /\ has_arbors(morphology.basal_dendrites)
              THEN arbors_terminals_as_spheres(w1, morphology.basal_dendrites,
                                               o.basal_dendrites_branch_order)
              ELSE w1
        w3 == IF ~o.ignore_apical_dendrites /\ has_arbors(morphology.apical_dendrites)
              THEN arbors_terminals_as_spheres(w2, morphology.apical_dendrites,
                                               o.apical_dendrite_branch_order)
              ELSE w2
    IN  link_and_shade_articulation_spheres(w3)

\* --- draw_morphology_skeleton
\* A step of draw_morphology_skeleton ended
step(w, name) == [w EXCEPT !.steps = Append(@, <<name, Len(w.objects)>>)]

\* if self.options.morphology.reconstruction_method ==
\* nmv.enums.Skeleton.Method.ARTICULATED_SECTIONS
any_method(reconstruction_method) == TRUE

articulated_sections(reconstruction_method) ==
    reconstruction_method = "ARTICULATED_SECTIONS"

\* if self.force_meta_ball
no_meta_ball_soma(force_meta_ball) == FALSE

meta_ball_soma(force_meta_ball) == force_meta_ball

\* update_arbors_radii, resample_skeleton_sections and transform_to_global_
\* coordinates change the samples of the morphology and the places of the
\* objects, which the model does not hold
draw_morphology_skeleton_arbors_first(w) ==
    LET w0 == step(w, "update_arbors_radii")
        w1 == step(create_bevel_object(w0), "create_bezier_circle")
        w2 == step(draw_each_arbor_as_single_object(w1), "draw_each_arbor_as_single_object")
        w3 == step(create_single_skeleton_materials_list(w2), "create_single_skeleton_materials_list")
        w4 == step(w3, "resample_skeleton_sections")
        w5 == IF articulated_sections(w4.b.options.reconstruction_method)
              THEN step(draw_articulations(w4), "draw_articulations") ELSE w4
        w6 == IF meta_ball_soma(w5.b.force_meta_ball)
              THEN step(draw_meta_balls_soma(w5), "draw_meta_balls_soma")
              ELSE step(draw_soma(w5), "draw_soma")
    IN  step(w6, "transform_to_global_coordinates")

draw_morphology_skeleton(w) ==
    LET w0 == step(w, "update_arbors_radii")
        w1 == step(create_bevel_object(w0), "create_bezier_circle")
        w2 == step(create_single_skeleton_materials_list(w1),
                   "create_single_skeleton_materials_list")
        w3 == step(w2, "resample_skeleton_sections")
        w4 == step(draw_each_arbor_as_single_object(w3),
                   "draw_each_arbor_as_single_object")
        w5 == IF articulated_sections(w4.b.options.reconstruction_method)
              THEN step(draw_articulations(w4), "draw_articulations") ELSE w4
        w6 == IF meta_ball_soma(w5.b.force_meta_ball)
              THEN step(draw_meta_balls_soma(w5), "draw_meta_balls_soma")
              ELSE step(draw_soma(w5), "draw_soma")
    IN  step(w6, "transform_to_global_coordinates")

\* --- draw_arbors_with_individual_colors
\* The body of the loop over the arbors of one kind: the poly-lines, one
\* object, a material of the color of the arbor
individual_arbor(w, a, max_branching_order, material_start_index) ==
    append_morphology_object(
        create_material(
            new_object(w, "arbor", a.label,
                construct_tree_poly_lines(a.tree, 1, <<>>, 0,
                    max_branching_order, a.label, material_start_index, FALSE),
                <<ArborMaterial(w, a)>>)),
        NextObject(w))

RECURSIVE individual_arbors(_, _, _, _)
individual_arbors(w, arbors, max_branching_order, material_start_index) ==
    IF arbors = <<>> THEN w
    ELSE individual_arbors(
             individual_arbor(w, Head(arbors), max_branching_order,
                              material_start_index),
             Tail(arbors), max_branching_order, material_start_index)

\* self.soma_materials = create_skeleton_materials(name='soma_skeleton', ...)
create_soma_materials(w) ==
    [create_skeleton_materials(w) EXCEPT
        !.b.soma_materials = SkeletonMaterials(w, "soma_skeleton")]

draw_arbors_with_individual_colors(w) ==
    LET o  == w.b.options
        w1 == create_soma_materials(create_bevel_object(clear_scene(w)))
        w2 == IF ~o.ignore_apical_dendrites /\ has_arbors(morphology.apical_dendrites)
              THEN individual_arbors(w1, morphology.apical_dendrites,
                       o.apical_dendrite_branch_order,
                       APICAL_DENDRITE_MATERIAL_START_INDEX)
              ELSE w1
        w3 == IF ~o.ignore_axons /\ has_arbors(morphology.axons)
              THEN individual_arbors(w2, morphology.axons, o.axon_branch_order,
                                     AXON_MATERIAL_START_INDEX)
              ELSE w2
        w4 == IF ~o.ignore_basal_dendrites /\ has_arbors(morphology.basal_dendrites)
              THEN individual_arbors(w3, morphology.basal_dendrites,
                       o.basal_dendrites_branch_order,
                       BASAL_DENDRITES_MATERIAL_START_INDEX)
              ELSE w3
    IN  draw_soma(w4)

\* --- draw_highlighted_arbor
\* The body of the loop over the arbors of one kind: the arbor whose tag is
\* that of the highlighted arbor gets a material of its color, the others the
\* global material
\* if arbor.tag == highlighted_arbor.tag
has_kind_of_tag(a, tag) == a.tag[1] = tag[1]

has_tag(a, tag) == a.tag = tag

highlighted_arbor_object(w, a, max_branching_order, material_start_index, tag, global_material) ==
    LET content == construct_tree_poly_lines(a.tree, 1, <<>>, 0,
                       max_branching_order, a.label, material_start_index,
                       FALSE)
    IN  IF has_tag(a, tag)
        THEN append_morphology_object(
                 create_material(
                     new_object(w, "arbor", a.label, content,
                                <<ArborMaterial(w, a)>>)),
                 NextObject(w))
        ELSE append_morphology_object(
                 new_object(w, "arbor", a.label, content, <<global_material>>),
                 NextObject(w))

RECURSIVE highlighted_arbor_objects(_, _, _, _, _, _)
highlighted_arbor_objects(w, arbors, max_branching_order, material_start_index, tag, global_material) ==
    IF arbors = <<>> THEN w
    ELSE highlighted_arbor_objects(
             highlighted_arbor_object(w, Head(arbors), max_branching_order,
                 material_start_index, tag, global_material),
             Tail(arbors), max_branching_order, material_start_index, tag,
             global_material)

draw_highlighted_arbor(w, tag) ==
    LET o  == w.b.options
        w0 == create_bevel_object(clear_scene(w))
        global_material == GlobalMaterial(w0)
        w1 == create_soma_materials(create_material(w0))
        w2 == IF ~o.ignore_apical_dendrites /\ has_arbors(morphology.apical_dendrites)
              THEN highlighted_arbor_objects(w1, morphology.apical_dendrites,
                       o.apical_dendrite_branch_order,
                       APICAL_DENDRITE_MATERIAL_START_INDEX, tag, global_material)
              ELSE w1
        w3 == IF ~o.ignore_axons /\ has_arbors(morphology.axons)
              THEN highlighted_arbor_objects(w2, morphology.axons,
                       o.axon_branch_order, AXON_MATERIAL_START_INDEX, tag,
                       global_material)
              ELSE w2
        w4 == IF ~o.ignore_basal_dendrites /\ has_arbors(morphology.basal_dendrites)
              THEN highlighted_arbor_objects(w3, morphology.basal_dendrites,
                       o.basal_dendrites_branch_order,
                       BASAL_DENDRITES_MATERIAL_START_INDEX, tag, global_material)
              ELSE w3
    IN  draw_soma(w4)

\* --- render_highlighted_arbors
\* self.options.morphology.adjust_to_analysis_mode(): everything is plotted,
\* for the whole morphology; self.options.shading.morphology_material = FLAT
adjust_to_analysis_mode(w) ==
    [w EXCEPT !.b.options.ignore_apical_dendrites = FALSE,
              !.b.options.ignore_axons = FALSE,
              !.b.options.ignore_basal_dendrites = FALSE,
              !.b.options.apical_dendrite_branch_order = INFINITY,
              !.b.options.axon_branch_order = INFINITY,
              !.b.options.basal_dendrites_branch_order = INFINITY,
              !.b.options.morphology_material = "FLAT"]

\* The arbors that render_highlighted_arbors highlights, in its order
HighlightedArbors(o) ==
    (IF ~o.ignore_apical_dendrites /\ has_arbors(morphology.apical_dendrites)
     THEN morphology.apical_dendrites ELSE <<>>)
    \o (IF ~o.ignore_axons /\ has_arbors(morphology.axons)
        THEN morphology.axons ELSE <<>>)
    \o (IF ~o.ignore_basal_dendrites /\ has_arbors(morphology.basal_dendrites)
        THEN morphology.basal_dendrites ELSE <<>>)

\* After the images of the original skeleton: nmv.scene.clear_scene() and
\* self.options.morphology.arbors_radii = UNIFIED
unify_radii(w) ==
    [clear_scene(w) EXCEPT !.b.options.arbors_radii = "UNIFIED"]

\* --- the morphologies and the options given to a builder
Arbors(kind, n, shape) ==
    [k \in 1..n |-> [tag |-> <<kind, k>>, label |-> <<kind, k, "label">>,
                     color |-> <<kind, k, "color">>, tree |-> shape]]

Morphologies ==
    { [ apical_dendrites |-> Arbors("ApicalDendrite", c[1], shape),
        axons |-> Arbors("Axon", c[2], shape),
        basal_dendrites |-> Arbors("BasalDendrite", c[3], shape) ] :
        c \in { d \in (0..MaxArbors) \X (0..MaxArbors) \X (0..MaxArbors) :
                  d[1] + d[2] + d[3] <= MaxArbors },
        shape \in Trees(MaxArborSections) }

AllArbors(m) == m.apical_dendrites \o m.axons \o m.basal_dendrites

BuilderBranchOrders == {1, INFINITY}

\* The options given to a builder; the three branch orders are given the same
\* value
Options ==
    { [ ignore_apical_dendrites |-> f[1],
        ignore_axons |-> f[2],
        ignore_basal_dendrites |-> f[3],
        apical_dendrite_branch_order |-> order,
        axon_branch_order |-> order,
        basal_dendrites_branch_order |-> order,
        reconstruction_method |-> method,
        arbors_radii |-> "ORIGINAL",
        morphology_material |-> "LAMBERT" ] :
        f \in BOOLEAN \X BOOLEAN \X BOOLEAN,
        order \in BuilderBranchOrders,
        method \in {"DISCONNECTED_SECTIONS", "ARTICULATED_SECTIONS"} }

\* DisconnectedSectionsBuilder.__init__
BInit ==
    /\ morphology \in Morphologies
    /\ builder \in
           [ morphology_objects : {<<>>},
             soma_materials : {NoList},
             axons_materials : {NoList},
             basal_dendrites_materials : {NoList},
             apical_dendrites_materials : {NoList},
             articulations_materials : {NoList},
             skeleton_materials : {<<>>},
             articulations_spheres : {<<>>},
             force_meta_ball : BOOLEAN,
             options : Options ]
    /\ scene = {}
    /\ objects = <<>>
    /\ materials = 0
    /\ call = [name |-> "__init__", before |-> 0, arg |-> NoArgument,
               returned |-> NoList]
    /\ calls = 0
    /\ rpc = "idle"
    /\ rk = 0
    /\ steps = <<>>

\* The state after a method that took the program from World to w
Becomes(w) ==
    /\ builder' = w.b
    /\ scene' = w.scene
    /\ objects' = w.objects
    /\ materials' = w.materials
    /\ steps' = w.steps

\* The method, called with arg, returned self.morphology_objects
ReturnedFor(name, arg, w) ==
    call' = [name |-> name, before |-> Len(objects), arg |-> arg,
             returned |-> w.b.morphology_objects]

\* The method, which takes no argument, returned self.morphology_objects
Returned(name, w) == ReturnedFor(name, NoArgument, w)

\* A public method is called from outside
Called ==
    /\ rpc = "idle"
    /\ calls < MaxCalls
    /\ calls' = calls + 1

CreateSingleSkeletonMaterialsList ==
    /\ Called
    /\ Becomes(create_single_skeleton_materials_list(World))
    /\ call' = [name |-> "create_single_skeleton_materials_list",
                before |-> Len(objects), arg |-> NoArgument,
                returned |-> NoList]
    /\ UNCHANGED <<morphology, rpc, rk>>
    /\ UNCHANGED <<dvars, pvars, xvars>>

DrawMorphologySkeleton ==
    /\ Called
    /\ LET w == draw_morphology_skeleton(World)
       IN  Becomes(w) /\ Returned("draw_morphology_skeleton", w)
    /\ UNCHANGED <<morphology, rpc, rk>>
    /\ UNCHANGED <<dvars, pvars, xvars>>

DrawArborsWithIndividualColors ==
    /\ Called
    /\ LET w == draw_arbors_with_individual_colors(World)
       IN  Becomes(w) /\ Returned("draw_arbors_with_individual_colors", w)
    /\ UNCHANGED <<morphology, rpc, rk>>
    /\ UNCHANGED <<dvars, pvars, xvars>>

DrawHighlightedArbor ==
    /\ Called
    /\ \E k \in 1..Len(AllArbors(morphology)) :
           LET tag == AllArbors(morphology)[k].tag
               w   == draw_highlighted_arbor(World, tag)
           IN  Becomes(w) /\ ReturnedFor("draw_highlighted_arbor", tag, w)
    /\ UNCHANGED <<morphology, rpc, rk>>
    /\ UNCHANGED <<dvars, pvars, xvars>>

\* render_highlighted_arbors, up to the return of its first
\* draw_arbors_with_individual_colors()
RenderBegin ==
    /\ Called
    /\ LET w == draw_arbors_with_individual_colors(adjust_to_analysis_mode(World))
       IN  Becomes(w) /\ Returned("draw_arbors_with_individual_colors", w)
    /\ rpc' = "original"
    /\ rk' = 0
    /\ UNCHANGED morphology
    /\ UNCHANGED <<dvars, pvars, xvars>>

\* render_highlighted_arbors, up to the return of draw_highlighted_arbor for
\* the next arbor
RenderHighlight ==
    /\ rpc \in {"original", "highlighted"}
    /\ rk < Len(HighlightedArbors(builder.options))
    /\ LET w0 == IF rpc = "original" THEN unify_radii(World) ELSE World
           tag == HighlightedArbors(builder.options)[rk + 1].tag
           w  == draw_highlighted_arbor(clear_scene(w0), tag)
       IN  Becomes(w) /\ ReturnedFor("draw_highlighted_arbor", tag, w)
    /\ rpc' = "highlighted"
    /\ rk' = rk + 1
    /\ UNCHANGED <<morphology, calls>>
    /\ UNCHANGED <<dvars, pvars, xvars>>

\* render_highlighted_arbors, up to the return of its second
\* draw_arbors_with_individual_colors()
RenderProjections ==
    /\ rpc \in {"original", "highlighted"}
    /\ rk = Len(HighlightedArbors(builder.options))
    /\ LET w0 == IF rpc = "original" THEN unify_radii(World) ELSE World
           w  == draw_arbors_with_individual_colors(w0)
       IN  Becomes(w) /\ Returned("draw_arbors_with_individual_colors", w)
    /\ rpc' = "projections"
    /\ UNCHANGED <<morphology, calls, rk>>
    /\ UNCHANGED <<dvars, pvars, xvars>>

\* render_highlighted_arbors, its last nmv.scene.clear_scene() and its return
RenderEnd ==
    /\ rpc = "projections"
    /\ Becomes(clear_scene(World))
    /\ call' = [name |-> "render_highlighted_arbors", before |-> Len(objects),
                arg |-> NoArgument, returned |-> NoList]
    /\ rpc' = "idle"
    /\ UNCHANGED <<morphology, calls, rk>>
    /\ UNCHANGED <<dvars, pvars, xvars>>

BNext ==
    \/ CreateSingleSkeletonMaterialsList
    \/ DrawMorphologySkeleton
    \/ DrawArborsWithIndividualColors
    \/ DrawHighlightedArbor
    \/ RenderBegin
    \/ RenderHighlight
    \/ RenderProjections
    \/ RenderEnd

InitBuilder == BInit /\ DIdle /\ PIdle /\ XIdle

SpecBuilder == InitBuilder /\ [][BNext]_vars

\* -------------------------------------------------------- builder claims
\* The methods that return self.morphology_objects
DrawMethods ==
    {"draw_morphology_skeleton", "draw_arbors_with_individual_colors",
     "draw_highlighted_arbor"}

\* The part of a list at the indices first .. first + n - 1, counted from 0
Slice(list, first, n) == SubSeq(list, first + 1, first + n)

\* C9: after any number of calls of create_single_skeleton_materials_list on
\* one builder, with two materials in the list of each category,
\* skeleton_materials holds the soma materials at the indices 0-1, the apical
\* dendrite materials at 2-3, the basal dendrite materials at 4-5, the axon
\* materials at 6-7 and the gray material from index 8; the list does not grow
\* with repeated calls.
C9_MaterialsListLayout ==
    LET sm == builder.skeleton_materials
        n  == MaterialsPerList
    IN  /\ Len(sm) <= GRAY_MATERIAL_INDEX + n
        /\ call.name \in {"create_single_skeleton_materials_list",
                          "draw_morphology_skeleton"} =>
               /\ Len(sm) = GRAY_MATERIAL_INDEX + n
               /\ Slice(sm, SOMA_MATERIAL_START_INDEX, n) = builder.soma_materials
               /\ Slice(sm, APICAL_DENDRITE_MATERIAL_START_INDEX, n) =
                      builder.apical_dendrites_materials
               /\ Slice(sm, BASAL_DENDRITES_MATERIAL_START_INDEX, n) =
                      builder.basal_dendrites_materials
               /\ Slice(sm, AXON_MATERIAL_START_INDEX, n) = builder.axons_materials
               /\ \A k \in (GRAY_MATERIAL_INDEX + 1)..Len(sm) :
                      sm[k].name[1] = "gray"
               /\ \A k \in 1..GRAY_MATERIAL_INDEX : sm[k].name[1] # "gray"

\* The list was built a second time, after a call that had built it and
\* another one that had replaced the soma materials
C9_Witness ==
    /\ call.name = "create_single_skeleton_materials_list"
    /\ calls = 2
    /\ materials >= 2 * (GRAY_MATERIAL_INDEX + 2 * MaterialsPerList)
    /\ builder.skeleton_materials[1].id > GRAY_MATERIAL_INDEX + 2 * MaterialsPerList

\* C10: after any sequence of calls of draw_morphology_skeleton,
\* draw_arbors_with_individual_colors and draw_highlighted_arbor on one builder
\* (the calls that render_highlighted_arbors makes included), every object in
\* the returned morphology_objects list was created by that call and is in the
\* scene.
C10_ReturnedObjectsAreDrawn ==
    call.name \in DrawMethods =>
        \A k \in 1..Len(call.returned) :
            /\ call.returned[k] > call.before
            /\ call.returned[k] \in scene

\* The numbers of the arbor objects that the last call created
DrawnArborObjects ==
    { k \in (call.before + 1)..Len(objects) : objects[k].kind = "arbor" }

\* The material of an arbor object is one made from the color of the arbor
HasOwnMaterial(k, a) ==
    /\ Len(objects[k].materials) = 1
    /\ objects[k].materials[1].color = a.color
    /\ objects[k].materials[1].name = <<a.tag, "material">>

\* C11: after draw_highlighted_arbor(highlighted_arbor), every arbor of a kind
\* that is not ignored has one object; the object has a material made from
\* the color of the arbor if and only if the tag of the arbor is that of
\* highlighted_arbor, and the objects of all the other arbors have one and the
\* same greyish material.
C11_OnlyHighlightedArborColored ==
    call.name = "draw_highlighted_arbor" =>
        LET arbors == HighlightedArbors(builder.options)
        IN  /\ Cardinality(DrawnArborObjects) = Len(arbors)
            /\ \A n \in 1..Len(arbors) :
                   \E k \in DrawnArborObjects :
                       /\ objects[k].name = arbors[n].label
                       /\ HasOwnMaterial(k, arbors[n]) <=> arbors[n].tag = call.arg
            /\ \A k \in DrawnArborObjects :
                   \/ \E n \in 1..Len(arbors) :
                          /\ arbors[n].tag = call.arg
                          /\ objects[k].name = arbors[n].label
                   \/ /\ Len(objects[k].materials) = 1
                      /\ objects[k].materials[1].color = GREYSH
            /\ \A k, l \in DrawnArborObjects :
                   /\ objects[k].materials[1].color = GREYSH
                   /\ objects[l].materials[1].color = GREYSH
                   => objects[k].materials = objects[l].materials

\* draw_highlighted_arbor drew two arbors of the same kind, the second of
\* them highlighted
C11_Witness ==
    /\ call.name = "draw_highlighted_arbor"
    /\ Len(HighlightedArbors(builder.options)) = 2
    /\ HighlightedArbors(builder.options)[1].tag[1] =
           HighlightedArbors(builder.options)[2].tag[1]
    /\ call.arg = HighlightedArbors(builder.options)[2].tag
    /\ \E k, l \in DrawnArborObjects :
           /\ k < l
           /\ objects[k].materials[1].color = GREYSH
           /\ HasOwnMaterial(l, HighlightedArbors(builder.options)[2])

\* The max_branching_order that draw_articulations passes for an arbor
MaxBranchingOrderOf(tag) ==
    IF tag[1] = "Axon" THEN builder.options.axon_branch_order
    ELSE IF tag[1] = "BasalDendrite"
         THEN builder.options.basal_dendrites_branch_order
         ELSE builder.options.apical_dendrite_branch_order

\* The tree of the arbor of the morphology that has the tag
TreeOf(tag) ==
    LET arbors == AllArbors(morphology)
    IN  arbors[CHOOSE n \in 1..Len(arbors) : arbors[n].tag = tag].tree

\* C12: with the arbor root counted as branching order 1, no sphere in
\* articulations_spheres belongs to a section whose branching order exceeds
\* the max_branching_order given for its arbor.
C12_NoSphereBeyondMaxBranchingOrder ==
    \A k \in 1..Len(builder.articulations_spheres) :
        LET sphere == builder.articulations_spheres[k]
        IN  BranchingOrder(TreeOf(sphere.arbor), sphere.section) <=
                MaxBranchingOrderOf(sphere.arbor)

\* The places, among the steps of the last call, of the steps with a name
\* of the set
StepsNamed(names) == { k \in 1..Len(steps) : steps[k][1] \in names }

\* The numbers of the objects of the kinds that the last call created
DrawnObjects(kinds) ==
    { k \in (call.before + 1)..Len(objects) : objects[k].kind \in kinds }

\* C18: in draw_morphology_skeleton the soma is drawn once, by
\* draw_meta_balls_soma when force_meta_ball_soma is True and by draw_soma
\* otherwise, never by both and never by neither, after every arbor object
\* and after the articulation spheres, and before the transformation to
\* global coordinates.
C18_SomaAfterArborsBeforeTransform ==
    call.name = "draw_morphology_skeleton" =>
        LET soma == StepsNamed({"draw_soma", "draw_meta_balls_soma"})
        IN  /\ Cardinality(soma) = 1
            /\ \A k \in soma :
                   /\ steps[k][1] = IF builder.force_meta_ball
                                     THEN "draw_meta_balls_soma"
                                     ELSE "draw_soma"
                   /\ \A n \in StepsNamed({"draw_each_arbor_as_single_object",
                                             "draw_articulations"}) : n < k
                   /\ StepsNamed({"draw_each_arbor_as_single_object"}) # {}
                   /\ \A n \in StepsNamed({"transform_to_global_coordinates"}) :
                          n > k
                   /\ StepsNamed({"transform_to_global_coordinates"}) # {}
            /\ Cardinality(DrawnObjects({"soma", "meta_balls_soma"})) = 1
            /\ \A k \in DrawnObjects({"soma", "meta_balls_soma"}) :
                   /\ objects[k].kind = IF builder.force_meta_ball
                                         THEN "meta_balls_soma" ELSE "soma"
                   /\ \A n \in DrawnObjects({"arbor", "articulations"}) : n < k

\* draw_morphology_skeleton drew two arbors, the articulations and then the
\* soma with meta balls
C18_Witness ==
    /\ call.name = "draw_morphology_skeleton"
    /\ builder.force_meta_ball
    /\ Cardinality(DrawnObjects({"arbor"})) = 2
    /\ Cardinality(DrawnObjects({"articulations"})) = 1
    /\ Cardinality(DrawnObjects({"meta_balls_soma"})) = 1
    /\ StepsNamed({"draw_meta_balls_soma"}) # {}

\* The numbers of the objects that the last call created, in the order of
\* their creation, those of the kinds only
DrawnInOrder(kinds) ==
    SelectSeq([k \in 1..(Len(objects) - call.before) |-> call.before + k],
              LAMBDA k : objects[k].kind \in kinds)

\* The places of an object in a list of objects
PlacesOf(obj, list) == { k \in 1..Len(list) : list[k] = obj }

\* The sections of an arbor that are within the max_branching_order given
\* for it, in pre-order
SectionsWithinOrder(a) ==
    SelectSeq(PreOrder(a.tree, 1),
              LAMBDA sec : BranchingOrder(a.tree, sec) <= MaxBranchingOrderOf(a.tag))

\* C21: draw_each_arbor_as_single_object (in draw_morphology_skeleton)
\* appends to morphology_objects exactly one object per arbor of a type that
\* is present and not ignored, in the order apical dendrites, axons, basal
\* dendrites, and none for an ignored type; the poly-lines of each object are
\* those of the sections of its arbor and nothing else.
C21_OneObjectPerArbor ==
    call.name = "draw_morphology_skeleton" =>
        LET arbors == HighlightedArbors(builder.options)
            drawn  == DrawnInOrder({"arbor"})
        IN  /\ Len(drawn) = Len(arbors)
            /\ \A n \in 1..Len(drawn) :
                   /\ objects[drawn[n]].name = arbors[n].label
                   /\ Cardinality(PlacesOf(drawn[n], builder.morphology_objects)) = 1
                   /\ [k \in 1..Len(objects[drawn[n]].content) |->
                           objects[drawn[n]].content[k].samples] =
                          SectionsWithinOrder(arbors[n])
            /\ \A n, o \in 1..Len(drawn) :
                   n < o =>
                       \A k \in PlacesOf(drawn[n], builder.morphology_objects) :
                           \A l \in PlacesOf(drawn[o], builder.morphology_objects) :
                               k < l

\* draw_morphology_skeleton drew the basal dendrite of a morphology that has
\* an axon and a basal dendrite of two sections, with the axons ignored
C21_Witness ==
    /\ call.name = "draw_morphology_skeleton"
    /\ Len(morphology.axons) = 1
    /\ Len(morphology.basal_dendrites) = 1
    /\ builder.options.ignore_axons
    /\ ~builder.options.ignore_basal_dendrites
    /\ Len(DrawnInOrder({"arbor"})) = 1
    /\ Len(objects[DrawnInOrder({"arbor"})[1]].content) = 2

\* The spheres that articulations_spheres held when the last call began: those
\* of the last articulations object made before it, none when there is none
SpheresBefore ==
    LET earlier == { k \in 1..call.before : objects[k].kind = "articulations" }
    IN  IF earlier = {} THEN <<>>
        ELSE objects[CHOOSE k \in earlier : \A n \in earlier : n <= k].content

\* C22: in draw_morphology_skeleton the articulation spheres are drawn and
\* linked if and only if reconstruction_method is ARTICULATED_SECTIONS: then
\* the call appends a sphere for every arbor that is not ignored and adds one
\* articulations object, which holds the spheres, to morphology_objects; for
\* another method nothing is ever appended to articulations_spheres and there
\* is no articulations object.
C22_ArticulationsOnlyWhenArticulated ==
    /\ builder.options.reconstruction_method # "ARTICULATED_SECTIONS" =>
           /\ builder.articulations_spheres = <<>>
           /\ \A k \in 1..Len(objects) : objects[k].kind # "articulations"
           /\ StepsNamed({"draw_articulations"}) = {}
    /\ (/\ call.name = "draw_morphology_skeleton"
        /\ builder.options.reconstruction_method = "ARTICULATED_SECTIONS") =>
           LET drawn == DrawnInOrder({"articulations"})
           IN  /\ Cardinality(StepsNamed({"draw_articulations"})) = 1
               /\ Len(drawn) = 1
               /\ Cardinality(PlacesOf(drawn[1], builder.morphology_objects)) = 1
               /\ objects[drawn[1]].content = builder.articulations_spheres
               /\ Len(builder.articulations_spheres) >=
                      Len(SpheresBefore) + Len(HighlightedArbors(builder.options))
               /\ SubSeq(builder.articulations_spheres, 1, Len(SpheresBefore)) =
                      SpheresBefore
               /\ \A n \in 1..Len(HighlightedArbors(builder.options)) :
                      \E k \in (Len(SpheresBefore) + 1)..
                                Len(builder.articulations_spheres) :
                          builder.articulations_spheres[k].arbor =
                              HighlightedArbors(builder.options)[n].tag

\* draw_morphology_skeleton drew the articulations of two arbors a second
\* time
C22_Witness ==
    /\ call.name = "draw_morphology_skeleton"
    /\ builder.options.reconstruction_method = "ARTICULATED_SECTIONS"
    /\ Len(HighlightedArbors(builder.options)) = 2
    /\ SpheresBefore # <<>>
    /\ Len(builder.articulations_spheres) = 2 * Len(SpheresBefore)
    /\ Len(DrawnInOrder({"articulations"})) = 1

\* The steps of draw_morphology_skeleton, in the order of the code
SkeletonSteps ==
    <<"update_arbors_radii", "create_bezier_circle",
      "create_single_skeleton_materials_list", "resample_skeleton_sections",
      "draw_each_arbor_as_single_object">>
    \o (IF builder.options.reconstruction_method = "ARTICULATED_SECTIONS"
        THEN <<"draw_articulations">> ELSE <<>>)
    \o <<IF builder.force_meta_ball THEN "draw_meta_balls_soma" ELSE "draw_soma">>
    \o <<"transform_to_global_coordinates">>

\* The places of morphology_objects that hold objects the last call created
AppendedPlaces ==
    { k \in 1..Len(builder.morphology_objects) :
          builder.morphology_objects[k] > call.before }

\* C23: draw_morphology_skeleton runs its steps in a fixed order: radii
\* update, bevel object (the first element the call appends to
\* morphology_objects), materials list, resampling, arbors, articulations
\* when the method asks for them, soma, transformation to global coordinates;
\* every arbor is drawn after the materials list exists, with that list, and
\* after resampling, and nothing follows the transformation.
C23_StepsInFixedOrder ==
    call.name = "draw_morphology_skeleton" =>
        /\ [k \in 1..Len(steps) |-> steps[k][1]] = SkeletonSteps
        /\ steps[1][2] = call.before
        /\ steps[2][2] = call.before + 1
        /\ objects[call.before + 1].kind = "bevel"
        /\ AppendedPlaces # {}
        /\ \A k \in AppendedPlaces :
               /\ \A n \in 1..Len(builder.morphology_objects) :
                      n > k => n \in AppendedPlaces
               /\ (k - 1) \notin AppendedPlaces =>
                      builder.morphology_objects[k] = call.before + 1
        /\ \A k \in DrawnObjects({"arbor"}) :
               /\ k > steps[3][2]
               /\ k > steps[4][2]
               /\ k <= steps[5][2]
               /\ objects[k].materials = builder.skeleton_materials
               /\ objects[k].materials # <<>>
        /\ steps[Len(steps)][1] = "transform_to_global_coordinates"
        /\ steps[Len(steps)][2] = Len(objects)

\* draw_morphology_skeleton, called again on a builder that holds the objects
\* of an earlier call, drew an arbor, the articulations and the soma
C23_Witness ==
    /\ call.name = "draw_morphology_skeleton"
    /\ Len(steps) = 8
    /\ DrawnObjects({"arbor"}) # {}
    /\ call.before > 0
    /\ Cardinality(AppendedPlaces) < Len(builder.morphology_objects)
    /\ steps[Len(steps)] = <<"transform_to_global_coordinates", Len(objects)>>

\* --------------------------------------- draw_section_terminal_as_sphere

\* The largest radius of a sample
MaxRadius == 3

\* The largest number of children of a section
MaxChildren == 2

\* The largest options.morphology.sections_radii_scale
MaxScale == 2

\* nmv.enums.Skeleton.Radii
SkeletonRadii == {"ORIGINAL", "SCALED", "UNIFIED", "FILTERED"}

\* create_ico_sphere(sphere_radius * 1.025, ...): the factor, in thousandths
SPHERE_RADIUS_FACTOR == 1025

\* if child_radius > radius: radius = child_radius
last_child_radius(radius, child_radius) == child_radius

larger_radius(radius, child_radius) ==
    IF child_radius > radius THEN child_radius ELSE radius

\* The loop over section.children, from the radius of the last sample of the
\* section
RECURSIVE joint_radius(_, _)
joint_radius(radius, children_radii) ==
    IF children_radii = <<>> THEN radius
    ELSE joint_radius(larger_radius(radius, Head(children_radii)),
                      Tail(children_radii))

\* sphere_radius, from the radius of the joint and options.morphology
sphere_radius(radius, options) ==
    IF options.arbors_radii = "SCALED"
    THEN radius * options.sections_radii_scale
    ELSE IF options.arbors_radii = "UNIFIED"
         THEN options.samples_unified_radii_value
         ELSE radius

\* nmv.bmeshi.create_ico_sphere(sphere_radius * 1.025, location=point,
\* subdivisions=3); the radius of the sphere is held in thousandths
section_terminal_sphere(sec, options) ==
    [ radius |-> sphere_radius(joint_radius(sec.last_radius,
                                            sec.children_first_radii),
                               options) * SPHERE_RADIUS_FACTOR,
      subdivisions |-> 3 ]

Radiuses == 1..MaxRadius

\* The sequences of at most n elements of S
RECURSIVE SeqsUpTo(_, _)
SeqsUpTo(S, n) ==
    IF n = 0 THEN {<<>>}
    ELSE LET shorter == SeqsUpTo(S, n - 1)
         IN  shorter \cup { Append(q, e) : q \in shorter, e \in S }

SphInit ==
    /\ sph_section \in [ last_radius : Radiuses,
                          children_first_radii : SeqsUpTo(Radiuses, MaxChildren) ]
    /\ sph_options \in [ arbors_radii : SkeletonRadii,
                          sections_radii_scale : 1..MaxScale,
                          samples_unified_radii_value : Radiuses ]
    /\ sph_spheres \in { <<>>, <<[radius |-> SPHERE_RADIUS_FACTOR,
                                   subdivisions |-> 3]>> }
    /\ sph_before = sph_spheres
    /\ sph_pc = "call"

DrawSectionTerminalAsSphere ==
    /\ sph_pc = "call"
    /\ sph_spheres' =
           Append(sph_spheres, section_terminal_sphere(sph_section, sph_options))
    /\ sph_pc' = "done"
    /\ UNCHANGED <<sph_section, sph_options, sph_before>>
    /\ UNCHANGED <<dvars, pvars, bvars>>
    /\ UNCHANGED <<impvars, plotvars, mdvars, areavars, regvars>>

SphNext == DrawSectionTerminalAsSphere

InitSphere ==
    /\ SphInit /\ DIdle /\ PIdle /\ BIdle
    /\ ImpIdle /\ PlotIdle /\ MdIdle /\ AreaIdle /\ RegIdle

SpecSphere == InitSphere /\ [][SphNext]_vars

\* The largest number of a set of numbers
SetMax(S) == CHOOSE m \in S : \A e \in S : e <= m

\* The largest of the radius of the last sample of the section and of the
\* radii of the first samples of its children
LargestRadius ==
    SetMax({sph_section.last_radius} \cup Range(sph_section.children_first_radii))

\* C13: draw_section_terminal_as_sphere appends exactly one sphere to
\* articulations_spheres; its radius (times 1.025) is the largest of the
\* radius of the last sample of the section and the radii of the first
\* samples of its children, multiplied by sections_radii_scale when
\* arbors_radii is SCALED, replaced by samples_unified_radii_value when it is
\* UNIFIED, and kept otherwise.
C13_SphereOfLargestRadius ==
    sph_pc = "done" =>
        /\ Len(sph_spheres) = Len(sph_before) + 1
        /\ SubSeq(sph_spheres, 1, Len(sph_before)) = sph_before
        /\ sph_spheres[Len(sph_spheres)].radius =
               SPHERE_RADIUS_FACTOR *
               (CASE sph_options.arbors_radii = "SCALED" ->
                         LargestRadius * sph_options.sections_radii_scale
                  [] sph_options.arbors_radii = "UNIFIED" ->
                         sph_options.samples_unified_radii_value
                  [] OTHER -> LargestRadius)

\* A sphere was appended for a section whose first child has the largest
\* radius, larger than that of its second child and of its own last sample,
\* with scaled radii
C13_Witness ==
    /\ sph_pc = "done"
    /\ Len(sph_section.children_first_radii) = 2
    /\ sph_section.children_first_radii[1] > sph_section.last_radius
    /\ sph_section.children_first_radii[1] > sph_section.children_first_radii[2]
    /\ sph_options.arbors_radii = "SCALED"
    /\ sph_options.sections_radii_scale = 2
    /\ Len(sph_before) = 1
    /\ sph_spheres[2].radius =
           2 * sph_section.children_first_radii[1] * SPHERE_RADIUS_FACTOR

\* ------------------------------------------------- plot_per_arbor_result
\* The largest result of an analysis for one arbor
MaxResult == 2

\* The largest number of basal dendrites with a result
MaxBasalDendrites == 2

\* Python's None, for a result
NoResult == -1

\* Python's None, for the list of the results of the basal dendrites
NoResults == <<NoResult>>

\* The sum of a list of numbers
RECURSIVE sum(_)
sum(list) == IF list = <<>> THEN 0 ELSE Head(list) + sum(Tail(list))

\* n / d rounded to the nearest integer, a tie to the even one
RoundHalfEven(n, d) ==
    LET q == n \div d
        r == n % d
    IN  IF 2 * r < d THEN q
        ELSE IF 2 * r > d THEN q + 1
             ELSE IF q % 2 = 0 THEN q ELSE q + 1

\* round((patch.get_width() / total) * 100, 2), in hundredths
percentage(width, total) == RoundHalfEven(width * 10000, total)

\* '%2.1f' % v for v given in hundredths: the number printed, in tenths
format_2_1f(hundredths) == RoundHalfEven(hundredths, 10)

\* '%2.1f' % y_data[i] or '%d' % y_data[i]: the conversion and the number
\* printed (in tenths for a float)
format_value(type, v) ==
    IF type = "float" THEN <<"%2.1f", format_2_1f(v * 100)>> ELSE <<"%d", v>>

\* The value that ax.text is given for a bar
bar_label(args, y, width, total) ==
    IF args.add_percentage
    THEN [ value |-> format_value(args.type, y),
           percentage |-> <<"%2.1f%%", format_2_1f(percentage(width, total))>> ]
    ELSE [ value |-> format_value(args.type, y), percentage |-> <<>> ]

\* if total > 0
has_total(total) == total > 0

\* The loop over ax.patches that adds the texts
RECURSIVE bar_labels(_, _, _, _)
bar_labels(args, y_data, widths, k) ==
    IF k > Len(widths) THEN <<>>
    ELSE IF has_total(sum(widths))
         THEN <<bar_label(args, y_data[k], widths[k], sum(widths))>>
              \o bar_labels(args, y_data, widths, k + 1)
         ELSE bar_labels(args, y_data, widths, k + 1)

\* y_data: the result of the apical dendrite, of each basal dendrite and of
\* the axon, those that are not None
y_data_of(results) ==
    (IF results.apical_dendrite_result # NoResult
     THEN <<results.apical_dendrite_result>> ELSE <<>>)
    \o (IF results.basal_dendrites_result # NoResults
        THEN results.basal_dendrites_result ELSE <<>>)
    \o (IF results.axon_result # NoResult
        THEN <<results.axon_result>> ELSE <<>>)

\* seaborn.barplot(x=y, y=x): ax.patches has one bar for each entry of y_data,
\* as wide as the entry
barplot(y_data) == y_data

OptionalResults == {NoResult} \cup 0..MaxResult

PlotInit ==
    /\ plot_args \in
           [ type : {"int", "float"},
             apical_dendrite_result : OptionalResults,
             basal_dendrites_result :
                 {NoResults} \cup SeqsUpTo(0..MaxResult, MaxBasalDendrites),
             axon_result : OptionalResults,
             add_percentage : BOOLEAN ]
    /\ plot_bars = <<>>
    /\ plot_texts = <<>>
    /\ plot_pc = "data"

\* plot_per_arbor_result, up to the bar plot
BarPlot ==
    /\ plot_pc = "data"
    /\ plot_bars' = barplot(y_data_of(plot_args))
    /\ plot_pc' = "labels"
    /\ UNCHANGED <<plot_args, plot_texts>>
    /\ UNCHANGED <<dvars, pvars, bvars>>
    /\ UNCHANGED <<sphvars, impvars, mdvars, areavars, regvars>>

\* plot_per_arbor_result, the labels of the bars
AddBarLabels ==
    /\ plot_pc = "labels"
    /\ plot_texts' = bar_labels(plot_args, y_data_of(plot_args), plot_bars, 1)
    /\ plot_pc' = "done"
    /\ UNCHANGED <<plot_args, plot_bars>>
    /\ UNCHANGED <<dvars, pvars, bvars>>
    /\ UNCHANGED <<sphvars, impvars, mdvars, areavars, regvars>>

PlotNext == BarPlot \/ AddBarLabels

InitPlot ==
    /\ PlotInit /\ DIdle /\ PIdle /\ BIdle
    /\ SphIdle /\ ImpIdle /\ MdIdle /\ AreaIdle /\ RegIdle

SpecPlot == InitPlot /\ [][PlotNext]_vars

\* C14: when add_percentage is True and the analysis results hold at least
\* one arbor, every bar gets one text that holds its value and its percentage
\* of the total of all the bars (to the tenth that is printed).
C14_EveryBarHasPercentage ==
    (plot_pc = "done" /\ plot_args.add_percentage /\ Len(plot_bars) >= 1) =>
        /\ Len(plot_texts) = Len(plot_bars)
        /\ \A k \in 1..Len(plot_texts) :
               /\ plot_texts[k].value =
                      format_value(plot_args.type, y_data_of(plot_args)[k])
               /\ Len(plot_texts[k].percentage) = 2
               /\ Abs(plot_texts[k].percentage[2] * sum(plot_bars) -
                          1000 * plot_bars[k]) * 20 <= 11 * sum(plot_bars)

\* ---------------------------------------- the imports of the plot functions
Packages == {"numpy", "matplotlib", "seaborn", "pandas"}

\* try: import <package> / except ModuleNotFoundError: pip_wheel(...)
try_import(package) == [kind |-> "try", package |-> package]

\* import <package>, outside a try statement
plain_import(package) == [kind |-> "import", package |-> package]

\* The import statements of a plot function, in order; import
\* matplotlib.pyplot and from matplotlib import ... import matplotlib
imports_of(function) ==
    IF function = "plot_per_arbor_result"
    THEN << try_import("numpy"), try_import("matplotlib"),
            try_import("seaborn"),
            plain_import("numpy"), plain_import("seaborn"),
            plain_import("matplotlib"), plain_import("matplotlib") >>
    ELSE << try_import("numpy"), try_import("matplotlib"),
            try_import("seaborn"), try_import("pandas"),
            plain_import("numpy"), plain_import("seaborn"),
            plain_import("matplotlib"), plain_import("matplotlib") >>

\* nmv.utilities.pip_wheel(package_name=...): the package that the handler
\* of a try statement installs
pip_wheel_numpy(statement) == "numpy"

pip_wheel_package(statement) == statement.package

\* The position after statement k
after_statement(function, k) ==
    IF k = Len(imports_of(function))
    THEN [at |-> k, in |-> "done"]
    ELSE [at |-> k + 1, in |-> "statement"]

ImpInit ==
    /\ imp_function \in {"plot_per_arbor_result", "plot_per_arbor_range"}
    /\ imp_installed \in SUBSET Packages
    /\ imp_events = <<>>
    /\ imp_pc = [at |-> 1, in |-> "statement"]

\* The statement at the position
Statement == imports_of(imp_function)[imp_pc.at]

\* The import of a try statement: it succeeds, or it raises
\* ModuleNotFoundError and the handler is entered
TryImport ==
    /\ imp_pc.in = "statement"
    /\ Statement.kind = "try"
    /\ IF Statement.package \in imp_installed
       THEN /\ imp_events' = Append(imp_events, <<"import", Statement.package, TRUE>>)
            /\ imp_pc' = after_statement(imp_function, imp_pc.at)
       ELSE /\ imp_events' = Append(imp_events, <<"import", Statement.package, FALSE>>)
            /\ imp_pc' = [imp_pc EXCEPT !.in = "except"]
    /\ UNCHANGED <<imp_function, imp_installed>>
    /\ UNCHANGED <<dvars, pvars, bvars>>
    /\ UNCHANGED <<sphvars, plotvars, mdvars, areavars, regvars>>

\* The handler of a try statement: pip_wheel installs the package, or fails to
PipWheel ==
    /\ imp_pc.in = "except"
    /\ imp_events' = Append(imp_events, <<"pip_wheel", pip_wheel_package(Statement)>>)
    /\ \E installs \in BOOLEAN :
           imp_installed' = IF installs
                            THEN imp_installed \cup {pip_wheel_package(Statement)}
                            ELSE imp_installed
    /\ imp_pc' = after_statement(imp_function, imp_pc.at)
    /\ UNCHANGED imp_function
    /\ UNCHANGED <<dvars, pvars, bvars>>
    /\ UNCHANGED <<sphvars, plotvars, mdvars, areavars, regvars>>

\* An import outside a try statement: it succeeds, or ModuleNotFoundError
\* ends the function
PlainImport ==
    /\ imp_pc.in = "statement"
    /\ Statement.kind = "import"
    /\ IF Statement.package \in imp_installed
       THEN /\ imp_events' = Append(imp_events, <<"import", Statement.package, TRUE>>)
            /\ imp_pc' = after_statement(imp_function, imp_pc.at)
       ELSE /\ imp_events' = Append(imp_events, <<"import", Statement.package, FALSE>>)
            /\ imp_pc' = [imp_pc EXCEPT !.in = "raised"]
    /\ UNCHANGED <<imp_function, imp_installed>>
    /\ UNCHANGED <<dvars, pvars, bvars>>
    /\ UNCHANGED <<sphvars, plotvars, mdvars, areavars, regvars>>

ImpNext == TryImport \/ PipWheel \/ PlainImport

InitImports ==
    /\ ImpInit /\ DIdle /\ PIdle /\ BIdle
    /\ SphIdle /\ PlotIdle /\ MdIdle /\ AreaIdle /\ RegIdle

SpecImports == InitImports /\ [][ImpNext]_vars

\* The packages that the function tries to import
TriedPackages ==
    { imports_of(imp_function)[k].package :
        k \in { n \in 1..Len(imports_of(imp_function)) :
                   imports_of(imp_function)[n].kind = "try" } }

\* The places of the imports of a package and of the calls of pip_wheel for
\* it among the events
ImportsOf(package) ==
    { k \in 1..Len(imp_events) :
        imp_events[k][1] = "import" /\ imp_events[k][2] = package }

PipWheelsOf(package) ==
    { k \in 1..Len(imp_events) : imp_events[k] = <<"pip_wheel", package>> }

\* The first import of the package raised ModuleNotFoundError
FirstImportRaised(package) ==
    \E k \in ImportsOf(package) :
        /\ \A n \in ImportsOf(package) : k <= n
        /\ imp_events[k][3] = FALSE

\* The package is imported after every call of pip_wheel for it
ImportedAgain(package) ==
    \A k \in PipWheelsOf(package) : \E n \in ImportsOf(package) : n > k

\* C15, as claimed: when the imports of a plot function are over, pip_wheel
\* was called for each of its packages (numpy, matplotlib, seaborn, and
\* pandas in plot_per_arbor_range) exactly when the first import of the
\* package raised ModuleNotFoundError, at most once, and the package was
\* imported again afterwards.
C15_RetryThenImportAgain ==
    imp_pc.in = "done" =>
        \A package \in TriedPackages :
            /\ Cardinality(PipWheelsOf(package)) =
                   IF FirstImportRaised(package) THEN 1 ELSE 0
            /\ ImportedAgain(package)

\* C15, amended: pip_wheel is called for a package exactly when its first
\* import raised ModuleNotFoundError, at most once, right after that import;
\* when the imports are over numpy, matplotlib and seaborn were imported
\* again after their installation, and pandas was imported only once.
C15_RetryAmended ==
    /\ \A package \in Packages :
           /\ Cardinality(PipWheelsOf(package)) <= 1
           /\ \A k \in PipWheelsOf(package) :
                  /\ k > 1
                  /\ imp_events[k - 1] = <<"import", package, FALSE>>
                  /\ \A n \in ImportsOf(package) : k - 1 <= n
           /\ (imp_pc.in # "except" \/ Statement.package # package) =>
                  (FirstImportRaised(package) => PipWheelsOf(package) # {})
    /\ imp_pc.in = "done" =>
           /\ \A package \in TriedPackages \ {"pandas"} : ImportedAgain(package)
           /\ Cardinality(ImportsOf("pandas")) <= 1
           /\ \A package \in Packages \ TriedPackages : ImportsOf(package) = {}

\* plot_per_arbor_range ended its imports after it installed seaborn and
\* pandas, which were missing
C15_Witness ==
    /\ imp_pc.in = "done"
    /\ imp_function = "plot_per_arbor_range"
    /\ PipWheelsOf("seaborn") # {}
    /\ PipWheelsOf("pandas") # {}
    /\ PipWheelsOf("numpy") = {}
    /\ ImportedAgain("seaborn")
    /\ ~ImportedAgain("pandas")

\* ----------------------------------------- compute_morphology_dendrogram
\* Python's None, for an arbor
NoArbor == [n |-> 0, parent |-> <<>>]

\* Python's None, for the list morphology.dendrites
NoArbors == <<NoArbor>>

\* The root section of an arbor: 1, or 0 (None) for no arbor
root_of(t) == IF t = NoArbor THEN 0 ELSE 1

\* The coordinates of the sections of an arbor before any dendrogram
NoDendrogram(t) ==
    [ x |-> [s \in 1..t.n |-> None], y |-> [s \in 1..t.n |-> None] ]

\* The first loop of compute_arbor_dendrogram: leaf.dendrogram_x = i * delta
RECURSIVE leaves_x(_, _, _, _)
leaves_x(lvs, k, d, x) ==
    IF k > Len(lvs) THEN x
    ELSE leaves_x(lvs, k + 1, d, [x EXCEPT ![lvs[k]] = leaf_x(k - 1, d)])

RECURSIVE compute_dendrogram_x_coordinates_for_parents(_, _, _)
compute_dendrogram_x_coordinates_for_parents(t, sec, x) ==
    IF sec = 0 THEN x
    ELSE IF t.parent[sec] = 0 THEN x
    ELSE LET cs == children(t, t.parent[sec])
             total == sum_children_x(x, cs, Rat(0))
         IN  IF total = None THEN x
             ELSE compute_dendrogram_x_coordinates_for_parents(t, t.parent[sec],
                      [x EXCEPT ![t.parent[sec]] = center_point(total, cs)])

\* The second loop of compute_arbor_dendrogram, over the leaves
RECURSIVE parents_x(_, _, _, _)
parents_x(t, lvs, k, x) ==
    IF k > Len(lvs) THEN x
    ELSE parents_x(t, lvs, k + 1,
                   compute_dendrogram_x_coordinates_for_parents(t, lvs[k], x))

\* compute_arbor_dendrogram(arbor, delta) for an arbor that is not None, with
\* the section lengths of the profile: the coordinates of its sections
compute_arbor_dendrogram(t, profile_of_lengths, d, dendrogram) ==
    LET lvs == get_arbor_leaves(t, root_of(t))
    IN  [ x |-> parents_x(t, lvs, 1, leaves_x(lvs, 1, d, dendrogram.x)),
          y |-> compute_dendrogram_y_coordinates_for_children(
                    t, profile_of_lengths, root_of(t), dendrogram.y) ]

\* if morphology.apical_dendrite is not None, if morphology.axon is not None
any_arbor(t) == TRUE

is_not_none(t) == t # NoArbor

\* if morphology.dendrites is not None
dendrites_is_not_none(dendrites) == dendrites # NoArbors

OptionalArbors == {NoArbor} \cup Trees(MaxArborSections)

MdInit ==
    /\ md_morphology \in
           [ apical_dendrite : OptionalArbors,
             dendrites : {NoArbors} \cup
                         SeqsUpTo(Trees(MaxArborSections), MaxArbors),
             axon : OptionalArbors,
             profile : Profiles ]
    /\ md_delta \in Deltas
    /\ md_calls = <<>>
    /\ md_dendrograms =
           [ apical_dendrite |-> NoDendrogram(md_morphology.apical_dendrite),
             dendrites |->
                 IF md_morphology.dendrites = NoArbors THEN <<>>
                 ELSE [k \in 1..Len(md_morphology.dendrites) |->
                          NoDendrogram(md_morphology.dendrites[k])],
             axon |-> NoDendrogram(md_morphology.axon) ]
    /\ md_pc = [at |-> "apical_dendrite", k |-> 0]

\* compute_arbor_dendrogram(arbor=t, delta=delta) is called: for None it
\* raises, when compute_dendrogram_y_coordinates_for_children reads
\* section.dendrogram_y; otherwise the function goes on at next
CallComputeArborDendrogram(id, t, next) ==
    /\ md_calls' = Append(md_calls, id)
    /\ md_pc' = IF t = NoArbor THEN [at |-> "raised", k |-> 0] ELSE next

\* The coordinates of the sections of the arbor after the call
dendrogram_after(t, before) ==
    IF t = NoArbor THEN before
    ELSE compute_arbor_dendrogram(t, md_morphology.profile, md_delta, before)

ApicalDendrite ==
    /\ md_pc.at = "apical_dendrite"
    /\ IF is_not_none(md_morphology.apical_dendrite)
       THEN /\ CallComputeArborDendrogram(<<"apical_dendrite">>,
                   md_morphology.apical_dendrite, [at |-> "dendrites", k |-> 0])
            /\ md_dendrograms' =
                   [md_dendrograms EXCEPT !.apical_dendrite =
                        dendrogram_after(md_morphology.apical_dendrite, @)]
       ELSE /\ md_pc' = [at |-> "dendrites", k |-> 0]
            /\ UNCHANGED <<md_calls, md_dendrograms>>
    /\ UNCHANGED <<md_morphology, md_delta>>
    /\ UNCHANGED <<dvars, pvars, bvars>>
    /\ UNCHANGED <<sphvars, impvars, plotvars, areavars, regvars>>

\* if morphology.dendrites is not None, and the end of the loop over them
BasalDendrites ==
    /\ md_pc.at = "dendrites"
    /\ \/ ~dendrites_is_not_none(md_morphology.dendrites)
       \/ md_pc.k = Len(md_morphology.dendrites)
    /\ md_pc' = [at |-> "axon", k |-> 0]
    /\ UNCHANGED <<md_morphology, md_delta, md_calls, md_dendrograms>>
    /\ UNCHANGED <<dvars, pvars, bvars>>
    /\ UNCHANGED <<sphvars, impvars, plotvars, areavars, regvars>>

\* The body of the loop over morphology.dendrites
BasalDendrite ==
    /\ md_pc.at = "dendrites"
    /\ dendrites_is_not_none(md_morphology.dendrites)
    /\ md_pc.k < Len(md_morphology.dendrites)
    /\ LET k == md_pc.k + 1
       IN  /\ CallComputeArborDendrogram(<<"dendrites", k>>,
                  md_morphology.dendrites[k], [at |-> "dendrites", k |-> k])
           /\ md_dendrograms' =
                  [md_dendrograms EXCEPT !.dendrites[k] =
                       dendrogram_after(md_morphology.dendrites[k], @)]
    /\ UNCHANGED <<md_morphology, md_delta>>
    /\ UNCHANGED <<dvars, pvars, bvars>>
    /\ UNCHANGED <<sphvars, impvars, plotvars, areavars, regvars>>

Axon ==
    /\ md_pc.at = "axon"
    /\ IF is_not_none(md_morphology.axon)
       THEN /\ CallComputeArborDendrogram(<<"axon">>, md_morphology.axon,
                   [at |-> "done", k |-> 0])
            /\ md_dendrograms' =
                   [md_dendrograms EXCEPT !.axon =
                        dendrogram_after(md_morphology.axon, @)]
       ELSE /\ md_pc' = [at |-> "done", k |-> 0]
            /\ UNCHANGED <<md_calls, md_dendrograms>>
    /\ UNCHANGED <<md_morphology, md_delta>>
    /\ UNCHANGED <<dvars, pvars, bvars>>
    /\ UNCHANGED <<sphvars, impvars, plotvars, areavars, regvars>>

MdNext == ApicalDendrite \/ BasalDendrites \/ BasalDendrite \/ Axon

InitMorphologyDendrogram ==
    /\ MdInit /\ DIdle /\ PIdle /\ BIdle
    /\ SphIdle /\ ImpIdle /\ PlotIdle /\ AreaIdle /\ RegIdle

SpecMorphologyDendrogram == InitMorphologyDendrogram /\ [][MdNext]_vars

\* The coordinates of an arbor are those of its dendrogram: the leaves, in
\* pre-order, are delta apart from 0, and every section has an X and a Y
\* coordinate
IsDendrogram(t, dendrogram) ==
    LET lvs == SelectLeaves(t, PreOrder(t, 1))
    IN  /\ \A k \in 1..Len(lvs) : dendrogram.x[lvs[k]] = Rat((k - 1) * md_delta)
        /\ \A sec \in 1..t.n : /\ dendrogram.x[sec] # None
                                /\ dendrogram.y[sec] # None

\* The arbors of the morphology that are not None, each with the name under
\* which compute_morphology_dendrogram reaches it
ArborsOfMorphology ==
    (IF md_morphology.apical_dendrite # NoArbor
     THEN {<<"apical_dendrite">>} ELSE {})
    \cup (IF md_morphology.dendrites # NoArbors
          THEN { <<"dendrites", k>> : k \in 1..Len(md_morphology.dendrites) }
          ELSE {})
    \cup (IF md_morphology.axon # NoArbor THEN {<<"axon">>} ELSE {})

MaxAreaSections == 3

\* The largest surface area of a section
MaxArea == 2

\* nmv.analysis.compute_sections_surface_areas_from_segments(section, list):
\* the surface area of the section is appended to the list
compute_sections_surface_areas_from_segments(a, sec, list) ==
    Append(list, a.areas[sec])

\* nmv.skeleton.ops.apply_operation_to_arbor(arbor, operation, list): the
\* operation is applied to the section and then to each of its children
RECURSIVE apply_operation_to_arbor(_, _, _)
RECURSIVE apply_operation_to_children(_, _, _)
apply_operation_to_arbor(a, sec, list) ==
    apply_operation_to_children(a, children(a.tree, sec),
        compute_sections_surface_areas_from_segments(a, sec, list))

apply_operation_to_children(a, cs, list) ==
    IF cs = <<>> THEN list
    ELSE apply_operation_to_children(a, Tail(cs),
             apply_operation_to_arbor(a, Head(cs), list))

\* arbor_total_surface_area += surface_area
last_surface_area(total, surface_area) == surface_area

add_surface_area(total, surface_area) == total + surface_area

AreaInit ==
    /\ area_arbor \in
           UNION { [ tree : {t}, areas : [1..t.n -> 0..MaxArea] ] :
                     t \in Trees(MaxAreaSections) }
    /\ sections_surface_areas = <<>>
    /\ arbor_total_surface_area = NoResult
    /\ area_pc = [at |-> "collect", k |-> 0]

\* The list of the areas of the sections is collected; the total is 0.0
CollectSurfaceAreas ==
    /\ area_pc.at = "collect"
    /\ sections_surface_areas' = apply_operation_to_arbor(area_arbor, 1, <<>>)
    /\ arbor_total_surface_area' = 0
    /\ area_pc' = [at |-> "sum", k |-> 0]
    /\ UNCHANGED area_arbor
    /\ UNCHANGED <<dvars, pvars, bvars>>
    /\ UNCHANGED <<sphvars, impvars, plotvars, mdvars, regvars>>

\* The body of the loop over sections_surface_areas
AddSurfaceArea ==
    /\ area_pc.at = "sum"
    /\ area_pc.k < Len(sections_surface_areas)
    /\ arbor_total_surface_area' =
           add_surface_area(arbor_total_surface_area,
                            sections_surface_areas[area_pc.k + 1])
    /\ area_pc' = [area_pc EXCEPT !.k = @ + 1]
    /\ UNCHANGED <<area_arbor, sections_surface_areas>>
    /\ UNCHANGED <<dvars, pvars, bvars>>
    /\ UNCHANGED <<sphvars, impvars, plotvars, mdvars, regvars>>

\* return arbor_total_surface_area
ReturnTotalSurfaceArea ==
    /\ area_pc.at = "sum"
    /\ area_pc.k = Len(sections_surface_areas)
    /\ area_pc' = [area_pc EXCEPT !.at = "done"]
    /\ UNCHANGED <<area_arbor, sections_surface_areas, arbor_total_surface_area>>
    /\ UNCHANGED <<dvars, pvars, bvars>>
    /\ UNCHANGED <<sphvars, impvars, plotvars, mdvars, regvars>>

AreaNext == CollectSurfaceAreas \/ AddSurfaceArea \/ ReturnTotalSurfaceArea

InitArea ==
    /\ AreaInit /\ DIdle /\ PIdle /\ BIdle
    /\ SphIdle /\ ImpIdle /\ PlotIdle /\ MdIdle /\ RegIdle

SpecArea == InitArea /\ [][AreaNext]_vars

\* The sum of f over the set S
RECURSIVE SumOver(_, _)
SumOver(f, S) ==
    IF S = {} THEN 0
    ELSE LET e == CHOOSE e \in S : TRUE IN f[e] + SumOver(f, S \ {e})

\* C17: compute_arbor_total_surface_area returns the sum of the surface
\* areas of the sections of the arbor, each section counted once: the list
\* holds one area per section, that of the sections in pre-order, the total
\* is 0.0 before any area is added and grows by one area of the list at a
\* time.
C17_TotalIsSumOfSectionAreas ==
    /\ area_pc.at \in {"sum", "done"} =>
           /\ Len(sections_surface_areas) = area_arbor.tree.n
           /\ \A k \in 1..Len(sections_surface_areas) :
                  sections_surface_areas[k] =
                      area_arbor.areas[PreOrder(area_arbor.tree, 1)[k]]
           /\ arbor_total_surface_area =
                  SumOver(sections_surface_areas, 1..area_pc.k)
    /\ area_pc.at = "done" =>
           arbor_total_surface_area =
               SumOver(area_arbor.areas, 1..area_arbor.tree.n)

\* The total of an arbor of three sections with the areas 1, 2 and 2, whose
\* root has two children, was returned
C17_Witness ==
    /\ area_pc.at = "done"
    /\ area_arbor.tree.n = 3
    /\ area_arbor.tree.parent = <<0, 1, 1>>
    /\ area_arbor.areas = <<1, 2, 2>>
    /\ arbor_total_surface_area = 5

\* -------------------------------------------- register() and unregister()
\* The largest number of calls of register() and unregister()
MaxEntryCalls == 4

\* The panels that other add-ons may have registered
ForeignPanels == {"foreign_panel_1", "foreign_panel_2"}

\* The modules whose register_panel() register() calls, in order
register_panels ==
    <<"io_panel", "analysis_panel", "soma_panel", "morphology_panel",
      "mesh_panel">>

\* The modules whose unregister_panel() unregister() calls, in order
unregister_panels_but_the_last ==
    <<"io_panel", "analysis_panel", "soma_panel", "morphology_panel",
      "morphology_panel">>

unregister_panels ==
    <<"io_panel", "analysis_panel", "soma_panel", "morphology_panel",
      "mesh_panel">>

\* <module>.register_panel(): the panel of the module is registered
register_panel(panels, module) == panels \cup {module}

\* <module>.unregister_panel(): the panel of the module is not registered
\* any more
unregister_panel(panels, module) == panels \ {module}

RegInit ==
    /\ registered \in SUBSET ForeignPanels
    /\ reg_pc = [in |-> "idle", k |-> 0]
    /\ reg_calls = <<>>

\* The add-on is enabled: its last entry point that was called is register()
Enabled == reg_calls # <<>> /\ reg_calls[Len(reg_calls)] = "register"

\* Blender calls register() when the add-on is enabled
CallRegister ==
    /\ reg_pc.in = "idle"
    /\ ~Enabled
    /\ Len(reg_calls) < MaxEntryCalls
    /\ reg_calls' = Append(reg_calls, "register")
    /\ reg_pc' = [in |-> "register", k |-> 0]
    /\ UNCHANGED registered
    /\ UNCHANGED <<dvars, pvars, bvars>>
    /\ UNCHANGED <<sphvars, impvars, plotvars, mdvars, areavars>>

\* The next statement of register(), or its return
RegisterPanel ==
    /\ reg_pc.in = "register"
    /\ IF reg_pc.k < Len(register_panels)
       THEN /\ registered' =
                   register_panel(registered, register_panels[reg_pc.k + 1])
            /\ reg_pc' = [reg_pc EXCEPT !.k = @ + 1]
       ELSE /\ reg_pc' = [in |-> "idle", k |-> 0]
            /\ UNCHANGED registered
    /\ UNCHANGED reg_calls
    /\ UNCHANGED <<dvars, pvars, bvars>>
    /\ UNCHANGED <<sphvars, impvars, plotvars, mdvars, areavars>>

\* Blender calls unregister() when the add-on is disabled
CallUnregister ==
    /\ reg_pc.in = "idle"
    /\ Enabled
    /\ Len(reg_calls) < MaxEntryCalls
    /\ reg_calls' = Append(reg_calls, "unregister")
    /\ reg_pc' = [in |-> "unregister", k |-> 0]
    /\ UNCHANGED registered
    /\ UNCHANGED <<dvars, pvars, bvars>>
    /\ UNCHANGED <<sphvars, impvars, plotvars, mdvars, areavars>>

\* The next statement of unregister(), or its return
UnregisterPanel ==
    /\ reg_pc.in = "unregister"
    /\ IF reg_pc.k < Len(unregister_panels)
       THEN /\ registered' =
                   unregister_panel(registered, unregister_panels[reg_pc.k + 1])
            /\ reg_pc' = [reg_pc EXCEPT !.k = @ + 1]
       ELSE /\ reg_pc' = [in |-> "idle", k |-> 0]
            /\ UNCHANGED registered
    /\ UNCHANGED reg_calls
    /\ UNCHANGED <<dvars, pvars, bvars>>
    /\ UNCHANGED <<sphvars, impvars, plotvars, mdvars, areavars>>

RegNext == CallRegister \/ RegisterPanel \/ CallUnregister \/ UnregisterPanel

InitRegistry ==
    /\ RegInit /\ DIdle /\ PIdle /\ BIdle
    /\ SphIdle /\ ImpIdle /\ PlotIdle /\ MdIdle /\ AreaIdle

SpecRegistry == InitRegistry /\ [][RegNext]_vars

\* The panels of the add-on
AddonPanels ==
    {"io_panel", "analysis_panel", "soma_panel", "morphology_panel",
     "mesh_panel"}

\* C19: when register() has returned, the io, analysis, soma, morphology and
\* mesh panels are registered; when unregister() has returned, after any
\* number of calls of register() each followed by unregister(), no panel of
\* the add-on is registered; the two entry points go through the same five
\* panels, and neither touches the panel of another add-on.
C19_RegisterThenUnregister ==
    /\ registered \subseteq AddonPanels \cup ForeignPanels
    /\ Range(register_panels) = AddonPanels
    /\ reg_pc.in = "idle" =>
           IF Enabled
           THEN AddonPanels \subseteq registered
           ELSE registered \cap AddonPanels = {}
    /\ reg_pc.in = "register" =>
           registered \cap AddonPanels =
               { register_panels[k] : k \in 1..reg_pc.k }
    /\ reg_pc.in = "unregister" =>
           registered \cap AddonPanels =
               AddonPanels \ { register_panels[k] : k \in 1..reg_pc.k }

\* unregister() has returned for the second time, with a panel of another
\* add-on registered
C19_Witness ==
    /\ reg_pc.in = "idle"
    /\ reg_calls = <<"register", "unregister", "register", "unregister">>
    /\ registered = {"foreign_panel_1"}

=============================================================================
